---- MODULE Spec2Model ----
(***************************************************************************)
(* State-machine model of the DetectMate service supervisor:               *)
(*   Service (src/src/service/core.py), Manager                            *)
(*   (src/src/service/features/manager.py) and Engine                      *)
(*   (src/src/service/features/engine.py).                                 *)
(*                                                                         *)
(* Threads: "main" (the caller thread: constructs the object, then calls   *)
(* the public API), "mgr" (ManagerCmdLoop) and the engine worker           *)
(* (EngineLoop).  Every Python statement that reads or writes shared       *)
(* state is one step, so that the interleavings CPython allows between     *)
(* statements are explored.                                                *)
(***************************************************************************)
EXTENDS Integers, Sequences, FiniteSets, TLC

VARIABLES
    \* ---- settings (read only after Init)
    engine_autostart,   \* settings.engine_autostart
    out_addr,           \* settings.out_addr, a sequence of address ids
    kind,               \* "service": Service(...) is built; "engine": a bare Engine(...)
    \* ---- attributes of self
    ctor,               \* position of the constructing thread inside __init__
    stop_event,         \* self._stop_event.is_set()
    has_handlers,       \* self._decorated_handlers exists
    handlers,           \* keys of self._decorated_handlers
    has_running,        \* self._running exists
    running,            \* self._running
    thread_attr,        \* which Thread object self._thread names: "none", "mgr", "eng"
    has_cfg,            \* self.config_manager exists
    rep_sock,           \* self._rep_sock: "none", "open", "closed"
    pair_sock,          \* self._pair_sock: "none", "open", "closed"
    out_sockets,        \* self._out_sockets, sequence of address ids
    out_closed,         \* the output sockets have been closed
    \* ---- Manager worker (ManagerCmdLoop)
    mpc,                \* "new", "top", "recv", "dedup", "handle", "call", "send", "exited"
    mcmd,               \* the decoded, stripped command being served
    mreply,             \* the reply to send
    \* ---- Engine worker (EngineLoop)
    epc,                \* "new", "top", "recv", "process", "send", "reply", "exited"
    raw,                \* the message being processed
    out,                \* the processor's result
    sidx,               \* index into out_sockets of the send in progress
    \* ---- start()/stop() frames of the threads "mgr" and "main"
    cpc,                \* position inside Service.start/stop, Engine.start/stop
    cvia,               \* "svc": entered through Service.start/stop, "eng": Engine.* directly
    cres,               \* result of the finished call
    mainop,             \* what the caller thread is doing
    \* ---- environment
    inq,                \* messages a client has sent on the engine socket, not yet received
    sentlog,            \* every message the client has sent on the engine socket
    peer_up,            \* peer_up[a]: a listener is bound on output address a
    broken,             \* broken[a]: sends to a fail with a socket error
    delivered,          \* delivered[a]: what the listener on a has received
    outbuf,             \* outbuf[a]: results queued in the send buffer of the socket for a
    \* ---- history
    reqlog,             \* per received request: the command, the replies sent for it,
                        \* and whether the latch was set / __init__ had returned on receipt
    calllog,            \* results of the caller thread's direct calls
    spawned,            \* number of successful Thread.start() on the engine thread
    shutdowns,          \* threads that executed Engine.stop's shutdown sequence
    sendlog,            \* every send attempted on an output socket, in order
    proclog,            \* every processor invocation and its outcome, in order
    pairout,            \* results sent back on the engine socket
    closed_mgr,         \* _close_manager has been entered
    \* ---- ConfigManager (src/src/service/features/config_manager.py)
    cfg_schema,         \* the schema class handed to ConfigManager: "base" or "mock"
    cfg_file,           \* what the file config_file holds on disk
    cfg_mem,            \* ConfigManager._configs
    cfg_lock,           \* holder of ConfigManager._lock: "free" or a thread
    kpc,                \* kpc[t]: position of thread t inside a ConfigManager operation
    kloc,               \* kloc[t]: the locals of that operation
    cfg_log,            \* every finished operation with its outcome, in order
    \* ---- ServiceSettings (src/src/service/settings.py)
    sset,               \* sset[i]: the two settings objects being validated
    \* ---- faults of the engine input socket
    faultlog,           \* socket errors injected on the engine socket, in order
    setuplog,           \* what Engine.__init__ did with each output address, in order
    \* ---- handler calls of Manager._handle_cmd
    bodylog             \* every entry into the body of a command handler, in order

setVars  == <<engine_autostart, out_addr, kind>>
cfgVars  == <<cfg_schema, cfg_file, cfg_mem, cfg_lock, kpc, kloc, cfg_log>>
idVars   == <<sset>>
fltVars  == <<faultlog, setuplog>>
\* what the Service/Manager/Engine steps never touch
hdlVars  == <<bodylog>>
extVars  == <<cfgVars, idVars, fltVars, hdlVars>>
selfVars == <<ctor, stop_event, has_handlers, handlers, has_running, running,
              thread_attr, has_cfg, rep_sock, pair_sock, out_sockets, out_closed>>
mgrVars  == <<mpc, mcmd, mreply>>
engVars  == <<epc, raw, out, sidx>>
callVars == <<cpc, cvia, cres, mainop>>
envVars  == <<inq, sentlog, peer_up, broken, delivered, outbuf>>
histVars == <<reqlog, calllog, spawned, shutdowns, sendlog, proclog, pairout, closed_mgr>>
vars == <<setVars, selfVars, mgrVars, engVars, callVars, envVars, histVars, extVars>>

----------------------------------------------------------------------------
\* Bounds of the model.
MaxCmds  == 2      \* requests a client sends on the command channel
MaxCalls == 2      \* direct start()/stop() calls of the caller thread
MaxMsgs  == 2      \* messages a client sends on the engine channel
MaxOut   == 2      \* output addresses in settings.out_addr
MaxBuf   == 1      \* settings.out_buffer_size: messages a send buffer holds
MaxFaults == 1     \* socket errors injected on the engine socket
MaxOps   == 3      \* reconfigure commands, ConfigManager calls and restarts

Threads == {"mgr", "main"}
Addrs   == 1..MaxOut

----------------------------------------------------------------------------
\* Text.  A command is a sequence of one-character strings.
Upper == <<"A","B","C","D","E","F","G","H","I","J","K","L","M",
           "N","O","P","Q","R","S","T","U","V","W","X","Y","Z">>
LowerOf == <<"a","b","c","d","e","f","g","h","i","j","k","l","m",
             "n","o","p","q","r","s","t","u","v","w","x","y","z">>
Whitespace == {" ", "\t", "\n"}

\* str.lower() of one character
LowerChar(c) ==
    IF \E i \in 1..Len(Upper) : Upper[i] = c
    THEN LowerOf[CHOOSE i \in 1..Len(Upper) : Upper[i] = c]
    ELSE c

\* str.lower()
Lower(s) == [i \in 1..Len(s) |-> LowerChar(s[i])]

\* str.strip(): whitespace removed at both ends
RECURSIVE LStrip(_)
LStrip(s) == IF s # <<>> /\ Head(s) \in Whitespace THEN LStrip(Tail(s)) ELSE s
RECURSIVE RStrip(_)
RStrip(s) ==
    IF s # <<>> /\ s[Len(s)] \in Whitespace THEN RStrip(SubSeq(s, 1, Len(s) - 1)) ELSE s
Strip(s) == RStrip(LStrip(s))

\* cmd.split(" ", 1)[0]: the text before the first space character
RECURSIVE SplitSpaceHead(_)
SplitSpaceHead(s) ==
    IF s = <<>> \/ Head(s) = " " THEN <<>> ELSE <<Head(s)>> \o SplitSpaceHead(Tail(s))

\* Mutant of VerbOf: the verb is looked up as it was typed.
VerbOfExact(cmd) == SplitSpaceHead(cmd)

\* verb = cmd.split(" ", 1)[0].lower()
VerbOf(cmd) == Lower(SplitSpaceHead(cmd))

STOP   == <<"s","t","o","p">>
START  == <<"s","t","a","r","t">>
STATUS == <<"s","t","a","t","u","s">>
PING   == <<"p","i","n","g">>
BOGUS  == <<"x">>

RECONFIGURE == <<"r","e","c","o","n","f","i","g","u","r","e">>

\* The requests a client may send on the command channel.
Requests == {STOP, START, STATUS, PING, BOGUS}

\* Requests in other spellings: upper and mixed case, with an argument, with
\* surrounding whitespace, with a tab instead of the space, empty.
PING_UPPER   == <<"P","I","N","G">>
PING_MIXED   == <<"P","i","n","g">>
PING_ARG     == <<"P","i","n","g"," ","X">>
PING_PADDED  == <<" ","P","I","N","G","\n">>
PING_TAB     == <<"p","i","n","g","\t","x">>
STATUS_UPPER == <<"S","T","A","T","U","S">>
STATUS_ARG   == <<"S","t","a","t","u","s"," ","X">>
START_UPPER  == <<"S","T","A","R","T">>
STOP_ARG     == <<"S","t","o","p"," ","n","o","w">>
BOGUS_UPPER  == <<"X"," ","Y">>
EMPTY        == <<" ">>
Spellings == {PING, PING_UPPER, PING_MIXED, PING_ARG, PING_PADDED, PING_TAB,
              STATUS_UPPER, STATUS_ARG, RECONFIGURE, START_UPPER, STOP_ARG,
              BOGUS_UPPER, EMPTY}

\* Replies: a text prefix, a detail and, for the unknown-command reply, the
\* echoed command.
Reply2(text, detail) == [text |-> text, detail |-> detail, arg |-> <<>>]
Reply(text) == Reply2(text, "")
UnknownReply(cmd) == [text |-> "unknown command: ", detail |-> "", arg |-> cmd]
NoReply == Reply("")

\* Results of start()/stop(): a returned value (None is "None") or a raised
\* exception with its class and message.
Ret(v)      == [kind |-> "ret", cls |-> "", val |-> Reply(v)]
RetErr(p, m) == [kind |-> "ret", cls |-> "", val |-> Reply2(p, m)]
Exc(c, m)   == [kind |-> "exc", cls |-> c, val |-> Reply2("error: ", m)]
NoRes       == [kind |-> "none", cls |-> "", val |-> NoReply]

MsgNoRunning   == "object has no attribute '_running'"
MsgNoPairSock  == "object has no attribute '_pair_sock'"
MsgNoCfg       == "object has no attribute 'config_manager'"
MsgStartTwice  == "threads can only be started once"
MsgJoinNew     == "Failed to join engine thread: cannot join thread before it is started"
MsgJoinTimeout == "Failed to join engine thread: Engine thread failed to stop within timeout"
MsgInternal    == "internal error processing command"
MsgCloseFailed == "Failed to close engine socket: <NNGException>"

----------------------------------------------------------------------------
\* threading.Thread state of the two worker threads.
ThreadState(pc) == IF pc = "new" THEN "new" ELSE IF pc = "exited" THEN "dead" ELSE "alive"
mgr_thread == ThreadState(mpc)
eng_thread == ThreadState(epc)
\* the Thread object self._thread names
self_thread == IF thread_attr = "mgr" THEN mgr_thread ELSE eng_thread

\* dir(self) lists the decorated methods in alphabetical order.
DiscoverOrder == <<RECONFIGURE, START, STATUS, STOP>>

----------------------------------------------------------------------------
\* Parameter documents.  A document maps the keys threshold and enabled, and
\* one key no schema knows, to a value; Absent marks a key that is missing.
Absent == "-"
Doc(t, e, o) == [threshold |-> t, enabled |-> e, other |-> o]
EmptyDoc == Doc(Absent, Absent, Absent)
Thresholds == {Absent, "0.7", "0.8", "2.0"}
Enableds   == {Absent, "true", "false"}
Others     == {Absent, "x"}
Docs == {Doc(t, e, o) : t \in Thresholds, e \in Enableds, o \in Others}

\* ConfigManager._configs: None, a validated model, or a raw dict (no schema).
Mem(k, d) == [kind |-> k, doc |-> d]
MemNone == Mem("none", EmptyDoc)

\* The file: absent, empty (opened for writing, nothing written yet), or
\* holding the YAML of a document.
File(k, d) == [kind |-> k, doc |-> d]
FileAbsent == File("absent", EmptyDoc)
FileEmpty  == File("empty", EmptyDoc)

\* A decoded JSON payload: an object (a document) or a scalar.
Json(k, d) == [kind |-> k, doc |-> d]

\* The schemas: "base" is BaseConfig, which declares no field; "mock" declares
\* threshold: float = 0.5 with 0 <= threshold <= 1 and enabled: bool = True.
\* Keys a schema does not declare are ignored by model_validate.
Schemas == {"base", "mock"}
ValidFor(schema, j) ==
    /\ j.kind = "dict"
    /\ schema = "mock" => j.doc.threshold # "2.0"
Validated(schema, j) ==
    IF schema = "base" THEN EmptyDoc
    ELSE Doc(IF j.doc.threshold = Absent THEN "0.5" ELSE j.doc.threshold,
             IF j.doc.enabled = Absent THEN "true" ELSE j.doc.enabled,
             Absent)
\* self.schema(): the model with every field at its default
SchemaDefault(schema) == Validated(schema, Json("dict", EmptyDoc))

\* Locals of a ConfigManager operation of one thread: the top-level operation,
\* the command or argument it was given, the persist flag, the decoded payload
\* (for load: the data read from the file), the dict save() is writing, and
\* _configs as it was on entry.
Loc(op, cmd, persist, data, mem0) ==
    [op |-> op, cmd |-> cmd, persist |-> persist, data |-> data,
     dump |-> EmptyDoc, mem0 |-> mem0]
NoLoc == Loc("", <<>>, FALSE, Json("none", EmptyDoc), MemNone)

\* No ConfigManager is in use.
CfgIdle ==
    /\ cfg_schema = "base" /\ cfg_file = FileAbsent /\ cfg_mem = MemNone
    /\ cfg_lock = "free"
    /\ kpc = [t \in Threads |-> "idle"]
    /\ kloc = [t \in Threads |-> NoLoc]
    /\ cfg_log = <<>>

\* No settings object is under validation.
IdIdle == sset = <<>>

\* No socket error has been injected.
FltIdle == faultlog = <<>> /\ setuplog = <<>>
HdlIdle == bodylog = <<>>

\* Service.__init__ has run lines 36-42 (settings, id, a fresh _stop_event,
\* logger, processor); a bare Engine.__init__ is entered: the attributes,
\* threads and channels at that point.
InitCore ==
    /\ engine_autostart \in BOOLEAN
    /\ stop_event = FALSE
    /\ has_handlers = FALSE /\ handlers = {}
    /\ has_running = FALSE /\ running = FALSE
    /\ thread_attr = "none" /\ has_cfg = FALSE
    /\ rep_sock = "none" /\ pair_sock = "none"
    /\ out_sockets = <<>> /\ out_closed = FALSE
    /\ mpc = "new" /\ mcmd = <<>> /\ mreply = NoReply
    /\ epc = "new" /\ raw = <<>> /\ out = <<>> /\ sidx = 0
    /\ cpc = [t \in Threads |-> "none"]
    /\ cvia = [t \in Threads |-> "none"]
    /\ cres = [t \in Threads |-> NoRes]
    /\ mainop = "init"
    /\ inq = <<>> /\ sentlog = <<>>
    /\ peer_up = [a \in Addrs |-> FALSE]
    /\ broken = [a \in Addrs |-> FALSE]
    /\ delivered = [a \in Addrs |-> <<>>]
    /\ outbuf = [a \in Addrs |-> <<>>]
    /\ reqlog = <<>> /\ calllog = <<>> /\ spawned = 0 /\ shutdowns = <<>>
    /\ sendlog = <<>> /\ proclog = <<>> /\ pairout = <<>>
    /\ closed_mgr = FALSE

\* Initial states of the Service, Manager and Engine specifications.
InitCommon ==
    /\ InitCore
    /\ CfgIdle /\ IdIdle /\ FltIdle /\ HdlIdle

\* A Service is constructed; the command channel is the subject.
Init ==
    /\ InitCommon
    /\ kind = "service"
    /\ ctor = "mgr_init"
    /\ out_addr = [i \in 1..MaxOut |-> i]

----------------------------------------------------------------------------
\* Service.__init__ / Manager.__init__ / Engine.__init__, statement by statement.

\* Manager.__init__ lines 53-72: a new Event replaces self._stop_event, the REP
\* socket is bound, the ManagerCmdLoop thread is created and started.
ManagerInit ==
    /\ ctor = "mgr_init"
    /\ stop_event' = FALSE
    /\ rep_sock' = "open"
    /\ thread_attr' = "mgr"
    /\ mpc' = "top"
    /\ ctor' = "mgr_handlers"
    /\ UNCHANGED <<has_handlers, handlers, has_running, running, has_cfg, pair_sock,
                   out_sockets, out_closed, mcmd, mreply>>
    /\ UNCHANGED <<setVars, extVars, engVars, callVars, envVars, histVars>>

\* Manager.__init__ line 75: self._decorated_handlers = {}
ManagerHandlers ==
    /\ ctor = "mgr_handlers"
    /\ has_handlers' = TRUE
    /\ handlers' = {}
    /\ ctor' = "mgr_discover"
    /\ UNCHANGED <<stop_event, has_running, running, thread_attr, has_cfg, rep_sock,
                   pair_sock, out_sockets, out_closed>>
    /\ UNCHANGED <<setVars, extVars, mgrVars, engVars, callVars, envVars, histVars>>

\* Manager._discover_decorated_commands: one decorated method is registered per
\* iteration, in dir() order.
ManagerDiscover ==
    /\ ctor = "mgr_discover"
    /\ LET n == Cardinality(handlers) IN
        /\ handlers' = handlers \cup {DiscoverOrder[n + 1]}
        /\ ctor' = IF n + 1 = Len(DiscoverOrder) THEN "eng_event" ELSE "mgr_discover"
    /\ UNCHANGED <<stop_event, has_handlers, has_running, running, thread_attr, has_cfg,
                   rep_sock, pair_sock, out_sockets, out_closed>>
    /\ UNCHANGED <<setVars, extVars, mgrVars, engVars, callVars, envVars, histVars>>

\* Engine.__init__ line 47: self._stop_event = threading.Event()
EngineInitEvent ==
    /\ ctor = "eng_event"
    /\ stop_event' = FALSE
    /\ ctor' = "eng_running"
    /\ UNCHANGED <<has_handlers, handlers, has_running, running, thread_attr, has_cfg,
                   rep_sock, pair_sock, out_sockets, out_closed>>
    /\ UNCHANGED <<setVars, extVars, mgrVars, engVars, callVars, envVars, histVars>>

\* Engine.__init__ line 51: self._running = False
EngineInitRunning ==
    /\ ctor = "eng_running"
    /\ has_running' = TRUE
    /\ running' = FALSE
    /\ ctor' = "eng_thread"
    /\ UNCHANGED <<stop_event, has_handlers, handlers, thread_attr, has_cfg,
                   rep_sock, pair_sock, out_sockets, out_closed>>
    /\ UNCHANGED <<setVars, extVars, mgrVars, engVars, callVars, envVars, histVars>>

\* Engine.__init__ lines 52-54: self._thread = threading.Thread(target=self._run_loop)
EngineInitThread ==
    /\ ctor = "eng_thread"
    /\ thread_attr' = "eng"
    /\ ctor' = "eng_socks"
    /\ UNCHANGED <<stop_event, has_handlers, handlers, has_running, running, has_cfg,
                   rep_sock, pair_sock, out_sockets, out_closed>>
    /\ UNCHANGED <<setVars, extVars, mgrVars, engVars, callVars, envVars, histVars>>

\* Engine._setup_output_sockets: one dialing socket per address, in order.
SetupOutputSockets == out_addr

\* Engine.__init__ lines 57-74: the input socket is bound, the outputs are set up.
EngineInitSockets ==
    /\ ctor = "eng_socks"
    /\ pair_sock' = "open"
    /\ out_sockets' = SetupOutputSockets
    /\ ctor' = "eng_autostart"
    /\ UNCHANGED <<stop_event, has_handlers, handlers, has_running, running, thread_attr,
                   has_cfg, rep_sock, out_closed>>
    /\ UNCHANGED <<setVars, extVars, mgrVars, engVars, callVars, envVars, histVars>>

\* Engine.__init__ lines 77-78: if engine_autostart, self.start() is called on
\* the constructing thread.
EngineInitAutostart ==
    /\ ctor = "eng_autostart"
    /\ IF engine_autostart
       THEN /\ ctor' = "autostart_call"
            /\ cpc' = [cpc EXCEPT !["main"] = "start_check"]
            /\ cvia' = [cvia EXCEPT !["main"] = IF kind = "service" THEN "svc" ELSE "eng"]
       ELSE /\ ctor' = IF kind = "service" THEN "cfg" ELSE "done"
            /\ UNCHANGED <<cpc, cvia>>
    /\ mainop' = IF ctor' = "done" THEN "idle" ELSE mainop
    /\ UNCHANGED <<stop_event, has_handlers, handlers, has_running, running, thread_attr,
                   has_cfg, rep_sock, pair_sock, out_sockets, out_closed>>
    /\ UNCHANGED <<cres>>
    /\ UNCHANGED <<setVars, extVars, mgrVars, engVars, envVars, histVars>>

\* The autostart call returned: construction goes on; if it raised, the
\* exception leaves __init__ and no object is handed to the caller.
EngineInitAutostartDone ==
    /\ ctor = "autostart_call"
    /\ cpc["main"] = "done"
    /\ ctor' = IF cres["main"].kind = "exc" THEN "failed"
               ELSE IF kind = "service" THEN "cfg" ELSE "done"
    /\ mainop' = IF ctor' = "done" THEN "idle" ELSE mainop
    /\ cpc' = [cpc EXCEPT !["main"] = "none"]
    /\ cres' = [cres EXCEPT !["main"] = NoRes]
    /\ UNCHANGED <<cvia>>
    /\ UNCHANGED <<stop_event, has_handlers, handlers, has_running, running, thread_attr,
                   has_cfg, rep_sock, pair_sock, out_sockets, out_closed>>
    /\ UNCHANGED <<setVars, extVars, mgrVars, engVars, envVars, histVars>>

\* Service.__init__ lines 50-62: self.config_manager is assigned.
ServiceInitConfig ==
    /\ ctor = "cfg"
    /\ has_cfg' = TRUE
    /\ ctor' = "done"
    /\ mainop' = "idle"
    /\ UNCHANGED <<stop_event, has_handlers, handlers, has_running, running, thread_attr,
                   rep_sock, pair_sock, out_sockets, out_closed>>
    /\ UNCHANGED <<cpc, cvia, cres>>
    /\ UNCHANGED <<setVars, extVars, mgrVars, engVars, envVars, histVars>>

----------------------------------------------------------------------------
\* start() and stop(), executed by thread t ("mgr" serving a command, or
\* "main" calling the API).  cvia[t] = "svc" when the call came in through
\* Service.start / Service.stop.

Finish(t, res) ==
    /\ cpc' = [cpc EXCEPT ![t] = "done"]
    /\ cres' = [cres EXCEPT ![t] = res]

Goto(t, label) ==
    /\ cpc' = [cpc EXCEPT ![t] = label]
    /\ UNCHANGED cres

\* Engine.start line 111: if not self._running
StartCheck(t) ==
    /\ cpc[t] = "start_check"
    /\ IF ~has_running THEN Finish(t, Exc("AttributeError", MsgNoRunning))
       ELSE IF ~running THEN Goto(t, "start_set")
       ELSE Finish(t, Ret("engine already running"))
    /\ UNCHANGED <<cvia, mainop>>
    /\ UNCHANGED <<setVars, extVars, selfVars, mgrVars, engVars, envVars, histVars>>

\* Engine.start line 112: self._running = True
StartSet(t) ==
    /\ cpc[t] = "start_set"
    /\ running' = TRUE
    /\ Goto(t, "start_thread")
    /\ UNCHANGED <<ctor, stop_event, has_handlers, handlers, has_running, thread_attr,
                   has_cfg, rep_sock, pair_sock, out_sockets, out_closed>>
    /\ UNCHANGED <<cvia, mainop>>
    /\ UNCHANGED <<setVars, extVars, mgrVars, engVars, envVars, histVars>>

\* Engine.start lines 113-114: self._thread.start(); return "engine started".
\* Thread.start() raises RuntimeError on a thread that was started before.
StartThread(t) ==
    /\ cpc[t] = "start_thread"
    /\ IF self_thread = "new"
       THEN /\ epc' = "top"
            /\ spawned' = spawned + 1
            /\ Finish(t, Ret("engine started"))
       ELSE /\ UNCHANGED <<epc, spawned>>
            /\ Finish(t, Exc("RuntimeError", MsgStartTwice))
    /\ UNCHANGED <<raw, out, sidx>>
    /\ UNCHANGED <<cvia, mainop>>
    /\ UNCHANGED <<reqlog, calllog, shutdowns, sendlog, proclog, pairout, closed_mgr>>
    /\ UNCHANGED <<setVars, extVars, selfVars, mgrVars, envVars>>

\* Service.stop line 110: if self._stop_event.is_set(): return "already ..."
StopCheck(t) ==
    /\ cpc[t] = "stop_check"
    /\ IF stop_event THEN Finish(t, Ret("already stopping or stopped"))
       ELSE Goto(t, "stop_set")
    /\ UNCHANGED <<cvia, mainop>>
    /\ UNCHANGED <<setVars, extVars, selfVars, mgrVars, engVars, envVars, histVars>>

\* Service.stop line 113: self._stop_event.set()
StopSet(t) ==
    /\ cpc[t] = "stop_set"
    /\ stop_event' = TRUE
    /\ Goto(t, "estop_check")
    /\ UNCHANGED <<ctor, has_handlers, handlers, has_running, running, thread_attr,
                   has_cfg, rep_sock, pair_sock, out_sockets, out_closed>>
    /\ UNCHANGED <<cvia, mainop>>
    /\ UNCHANGED <<setVars, extVars, mgrVars, engVars, envVars, histVars>>

\* Mutant of StopOutcome: Service.stop answers "engine stopped" even when
\* Engine.stop raised EngineException.
StopOutcomeSwallowing(t, res) ==
    IF cvia[t] # "svc" THEN res
    ELSE IF res.kind = "ret" \/ res.cls = "EngineException" THEN Ret("engine stopped")
    ELSE res

\* What the caller of Engine.stop makes of its outcome: Service.stop (lines
\* 114-120) returns "engine stopped", turns an EngineException into an error
\* string and lets any other exception through; a direct caller gets the
\* outcome unchanged.
StopOutcome(t, res) ==
    IF cvia[t] # "svc" THEN res
    ELSE IF res.kind = "ret" THEN Ret("engine stopped")
    ELSE IF res.cls = "EngineException"
         THEN RetErr("error: failed to stop engine - ", res.val.detail)
    ELSE res

\* Mutant of EStopCheck: the early return for an engine that is not running is
\* missing.
EStopCheckUnguarded(t) ==
    /\ cpc[t] = "estop_check"
    /\ IF ~has_running THEN Finish(t, StopOutcome(t, Exc("AttributeError", MsgNoRunning)))
       ELSE Goto(t, "estop_clear")
    /\ UNCHANGED <<cvia, mainop>>
    /\ UNCHANGED <<setVars, extVars, selfVars, mgrVars, engVars, envVars, histVars>>

\* Engine.stop lines 197-200: if not self._running: return None
EStopCheck(t) ==
    /\ cpc[t] = "estop_check"
    /\ IF ~has_running THEN Finish(t, StopOutcome(t, Exc("AttributeError", MsgNoRunning)))
       ELSE IF ~running THEN Finish(t, StopOutcome(t, Ret("None")))
       ELSE Goto(t, "estop_clear")
    /\ UNCHANGED <<cvia, mainop>>
    /\ UNCHANGED <<setVars, extVars, selfVars, mgrVars, engVars, envVars, histVars>>

\* Engine.stop line 201: self._running = False
EStopClear(t) ==
    /\ cpc[t] = "estop_clear"
    /\ running' = FALSE
    /\ Goto(t, "estop_latch")
    /\ UNCHANGED <<ctor, stop_event, has_handlers, handlers, has_running, thread_attr,
                   has_cfg, rep_sock, pair_sock, out_sockets, out_closed>>
    /\ UNCHANGED <<cvia, mainop>>
    /\ UNCHANGED <<setVars, extVars, mgrVars, engVars, envVars, histVars>>

\* Engine.stop line 202: self._stop_event.set()
EStopLatch(t) ==
    /\ cpc[t] = "estop_latch"
    /\ stop_event' = TRUE
    /\ Goto(t, "estop_close_in")
    /\ UNCHANGED <<ctor, has_handlers, handlers, has_running, running, thread_attr,
                   has_cfg, rep_sock, pair_sock, out_sockets, out_closed>>
    /\ UNCHANGED <<cvia, mainop>>
    /\ UNCHANGED <<setVars, extVars, mgrVars, engVars, envVars, histVars>>

\* Engine.stop lines 205-208: self._pair_sock.close().  The socket comes from a
\* factory (engine_socket.py); its close() either closes it or raises
\* NNGException, which is re-raised as EngineException.
EStopCloseInput(t) ==
    /\ cpc[t] = "estop_close_in"
    /\ IF pair_sock = "none"
       THEN /\ Finish(t, StopOutcome(t, Exc("AttributeError", MsgNoPairSock)))
            /\ UNCHANGED <<pair_sock, shutdowns>>
       ELSE \/ /\ pair_sock' = "closed"
               /\ shutdowns' = Append(shutdowns, t)
               /\ Goto(t, "estop_close_out")
            \/ /\ Finish(t, StopOutcome(t, Exc("EngineException", MsgCloseFailed)))
               /\ UNCHANGED <<pair_sock, shutdowns>>
    /\ UNCHANGED <<ctor, stop_event, has_handlers, handlers, has_running, running,
                   thread_attr, has_cfg, rep_sock, out_sockets, out_closed>>
    /\ UNCHANGED <<cvia, mainop>>
    /\ UNCHANGED <<reqlog, calllog, spawned, sendlog, proclog, pairout, closed_mgr>>
    /\ UNCHANGED <<setVars, extVars, mgrVars, engVars, envVars>>

\* Mutant of EStopCloseOutputs: the output sockets are left open.
EStopCloseOutputsSkipped(t) ==
    /\ cpc[t] = "estop_close_out"
    /\ Goto(t, "estop_join")
    /\ UNCHANGED <<cvia, mainop>>
    /\ UNCHANGED <<setVars, extVars, selfVars, mgrVars, engVars, envVars, histVars>>

\* Engine.stop lines 211-216: every output socket is closed; what its send
\* buffer still holds is discarded with it
EStopCloseOutputs(t) ==
    /\ cpc[t] = "estop_close_out"
    /\ out_closed' = TRUE
    /\ outbuf' = [a \in Addrs |-> <<>>]
    /\ Goto(t, "estop_join")
    /\ UNCHANGED <<ctor, stop_event, has_handlers, handlers, has_running, running,
                   thread_attr, has_cfg, rep_sock, pair_sock, out_sockets>>
    /\ UNCHANGED <<cvia, mainop>>
    /\ UNCHANGED <<inq, sentlog, peer_up, broken, delivered>>
    /\ UNCHANGED <<setVars, extVars, mgrVars, engVars, histVars>>

\* Mutant of EStopJoin: stop() returns without waiting for the worker.
EStopJoinNoWait(t) ==
    /\ cpc[t] = "estop_join"
    /\ Finish(t, StopOutcome(t, Ret("None")))
    /\ UNCHANGED <<cvia, mainop>>
    /\ UNCHANGED <<setVars, extVars, selfVars, mgrVars, engVars, envVars, histVars>>

\* Engine.stop lines 218-226: self._thread.join(timeout=1.0).  The join returns
\* when the worker has exited; it raises on a thread that was never started.
\* The 1.0 s can run out only while the worker is inside the processor: every
\* other step of the worker is bounded by the receive timeout or is unblocked
\* by the socket closes that precede the join.
EStopJoin(t) ==
    /\ cpc[t] = "estop_join"
    /\ \/ /\ self_thread = "dead"
          /\ Finish(t, StopOutcome(t, Ret("None")))
       \/ /\ self_thread = "new"
          /\ Finish(t, StopOutcome(t, Exc("EngineException", MsgJoinNew)))
       \/ /\ self_thread = "alive"
          /\ thread_attr = "eng" /\ epc = "process"
          /\ Finish(t, StopOutcome(t, Exc("EngineException", MsgJoinTimeout)))
    /\ UNCHANGED <<cvia, mainop>>
    /\ UNCHANGED <<setVars, extVars, selfVars, mgrVars, engVars, envVars, histVars>>

----------------------------------------------------------------------------
\* Manager worker: Manager._command_loop and Manager._handle_cmd.

\* line 95: while not self._stop_event.is_set()
MgrTop ==
    /\ mpc = "top"
    /\ mpc' = IF stop_event THEN "exited" ELSE "recv"
    /\ UNCHANGED <<mcmd, mreply>>
    /\ UNCHANGED <<setVars, extVars, selfVars, engVars, callVars, envVars, histVars>>

\* lines 97-102: recv() ran into the receive timeout: continue
MgrRecvTimeout ==
    /\ mpc = "recv"
    /\ rep_sock = "open"
    /\ mpc' = "top"
    /\ UNCHANGED <<mcmd, mreply>>
    /\ UNCHANGED <<setVars, extVars, selfVars, engVars, callVars, envVars, histVars>>

\* lines 103-104: recv() on the closed socket raises NNGException: break
MgrRecvClosed ==
    /\ mpc = "recv"
    /\ rep_sock = "closed"
    /\ mpc' = "exited"
    /\ UNCHANGED <<mcmd, mreply>>
    /\ UNCHANGED <<setVars, extVars, selfVars, engVars, callVars, envVars, histVars>>

\* lines 97-98: a request, one of the set S, arrives; cmd = raw.decode().strip()
MgrRecvFrom(S) ==
    /\ mpc = "recv"
    /\ rep_sock = "open"
    /\ Len(reqlog) < MaxCmds
    /\ \E req \in S :
        /\ mcmd' = Strip(req)
        /\ reqlog' = Append(reqlog, [cmd |-> Strip(req), replies |-> <<>>,
                                     latch |-> stop_event, built |-> (ctor = "done"),
                                     call |-> ""])
    /\ mpc' = "dedup"
    /\ UNCHANGED mreply
    /\ UNCHANGED <<calllog, spawned, shutdowns, sendlog, proclog, pairout, closed_mgr>>
    /\ UNCHANGED <<setVars, extVars, selfVars, engVars, callVars, envVars>>

MgrRecv == MgrRecvFrom(Requests)

\* lines 107-110: a "stop" received while the latch is set is skipped: continue
MgrDedup ==
    /\ mpc = "dedup"
    /\ mpc' = IF stop_event /\ Lower(mcmd) = STOP THEN "top" ELSE "handle"
    /\ UNCHANGED <<mcmd, mreply>>
    /\ UNCHANGED <<setVars, extVars, selfVars, engVars, callVars, envVars, histVars>>

\* Service.status lines 125-140: reads self.config_manager and self._running
StatusReply ==
    IF ~has_cfg THEN Reply2("error: ", MsgNoCfg)
    ELSE Reply2("status", IF has_running /\ running THEN "running" ELSE "stopped")

\* Service.reconfigure lines 145-146 on a service without config file: reads
\* self.config_manager, which is None once __init__ has assigned it
ReconfigureReply ==
    IF ~has_cfg THEN Reply2("error: ", MsgNoCfg)
    ELSE Reply("reconfigure: no config manager configured")

\* The decorated handlers whose signature has the cmd parameter: status and
\* reconfigure; start and stop take none.
TakesCmd == {STATUS, RECONFIGURE}

\* lines 112-116 and _handle_cmd lines 136-160: dispatch on the verb.  The
\* handlers start and stop are entered as frames of thread "mgr"; fn(cmd) raises
\* TypeError before their body runs (they take no argument), then fn() runs.
\* reqlog records how the request was dispatched: handler called with the
\* command ("cmd"), handler called without argument ("noarg"), built-in ping,
\* unknown, or the registry was missing ("internal").
MgrHandle ==
    /\ mpc = "handle"
    /\ LET verb == VerbOf(mcmd)
           how  == IF ~has_handlers THEN "internal"
                   ELSE IF verb \in handlers
                        THEN (IF verb \in TakesCmd THEN "cmd" ELSE "noarg")
                   ELSE IF verb = PING THEN "ping"
                   ELSE "unknown" IN
       /\ reqlog' = [reqlog EXCEPT ![Len(reqlog)].call = how]
       /\ IF ~has_handlers
          THEN /\ mreply' = Reply2("error: ", MsgInternal)
               /\ mpc' = "send"
               /\ UNCHANGED <<cpc, cvia>>
          ELSE IF verb \in handlers /\ verb \in {START, STOP}
          THEN /\ cpc' = [cpc EXCEPT !["mgr"] = IF verb = START THEN "start_check"
                                                               ELSE "stop_check"]
               /\ cvia' = [cvia EXCEPT !["mgr"] = "svc"]
               /\ mpc' = "call"
               /\ UNCHANGED mreply
          ELSE /\ mreply' = IF verb \in handlers /\ verb = STATUS THEN StatusReply
                            ELSE IF verb \in handlers THEN ReconfigureReply
                            ELSE IF verb = PING THEN Reply("pong")
                            ELSE UnknownReply(mcmd)
               /\ mpc' = "send"
               /\ UNCHANGED <<cpc, cvia>>
    /\ UNCHANGED <<mcmd, cres, mainop>>
    /\ UNCHANGED <<calllog, spawned, shutdowns, sendlog, proclog, pairout, closed_mgr>>
    /\ UNCHANGED <<setVars, extVars, selfVars, engVars, envVars>>

\* Mutant of MgrCallReturn: an exception of the handler ends the worker.
MgrCallReturnDying ==
    /\ mpc = "call"
    /\ cpc["mgr"] = "done"
    /\ mreply' = cres["mgr"].val
    /\ mpc' = IF cres["mgr"].kind = "exc" THEN "exited" ELSE "send"
    /\ cpc' = [cpc EXCEPT !["mgr"] = "none"]
    /\ cres' = [cres EXCEPT !["mgr"] = NoRes]
    /\ UNCHANGED <<mcmd, cvia, mainop>>
    /\ UNCHANGED <<setVars, extVars, selfVars, engVars, envVars, histVars>>

\* _handle_cmd lines 147-153: the handler returned (reply = its value) or
\* raised (reply = "error: <message>")
MgrCallReturn ==
    /\ mpc = "call"
    /\ cpc["mgr"] = "done"
    /\ mreply' = cres["mgr"].val
    /\ mpc' = "send"
    /\ cpc' = [cpc EXCEPT !["mgr"] = "none"]
    /\ cres' = [cres EXCEPT !["mgr"] = NoRes]
    /\ UNCHANGED <<mcmd, cvia, mainop>>
    /\ UNCHANGED <<setVars, extVars, selfVars, engVars, envVars, histVars>>

\* lines 118-123: self._rep_sock.send(reply); NNGException on a closed socket: break
MgrSend ==
    /\ mpc = "send"
    /\ IF rep_sock = "open"
       THEN /\ reqlog' = [reqlog EXCEPT ![Len(reqlog)].replies = Append(@, mreply)]
            /\ mpc' = "top"
       ELSE /\ mpc' = "exited"
            /\ UNCHANGED reqlog
    /\ UNCHANGED <<mcmd, mreply>>
    /\ UNCHANGED <<calllog, spawned, shutdowns, sendlog, proclog, pairout, closed_mgr>>
    /\ UNCHANGED <<setVars, extVars, selfVars, engVars, callVars, envVars>>

----------------------------------------------------------------------------
\* Engine worker: Engine._run_loop (control part; the message path follows).

\* line 118: while self._running and not self._stop_event.is_set()
WorkerTop ==
    /\ epc = "top"
    /\ epc' = IF running /\ ~stop_event THEN "recv" ELSE "exited"
    /\ UNCHANGED <<raw, out, sidx>>
    /\ UNCHANGED <<setVars, extVars, selfVars, mgrVars, callVars, envVars, histVars>>

\* lines 128-129: recv() ran into the receive timeout (no message is queued):
\* continue.  Lines 136-138:
\* while self._pair_sock is not assigned yet the attribute read raises, which the
\* generic handler logs: continue.
WorkerRecvTimeout ==
    /\ epc = "recv"
    /\ \/ pair_sock = "open" /\ inq = <<>>
       \/ pair_sock = "none"
    /\ epc' = "top"
    /\ UNCHANGED <<raw, out, sidx>>
    /\ UNCHANGED <<setVars, extVars, selfVars, mgrVars, callVars, envVars, histVars>>

\* lines 130-135: recv() on the closed socket raises NNGException: break if the
\* engine is stopping, else log and continue
WorkerRecvClosed ==
    /\ epc = "recv"
    /\ pair_sock = "closed"
    /\ epc' = IF ~running \/ stop_event THEN "exited" ELSE "top"
    /\ UNCHANGED <<raw, out, sidx>>
    /\ UNCHANGED <<setVars, extVars, selfVars, mgrVars, callVars, envVars, histVars>>

----------------------------------------------------------------------------
\* Engine worker: the message path of Engine._run_loop and _send_to_outputs.

\* The processor.  DefaultProcessor returns the message itself; a service's
\* processor is pluggable (tests upper-case and prefix the payload).  Here the
\* result of a message m is m behind a marker byte, so that a result is never
\* mistaken for an input.
Processor(m) == <<0>> \o m

\* What a processor call can do: return a value, return None, raise
\* ProcessorException, raise anything else.
ProcOutcomes == {"value", "none", "ProcessorException", "Exception"}

\* Mutant of WorkerRecvMsg: an empty message is processed like any other.
WorkerRecvMsgNoSkip ==
    /\ epc = "recv"
    /\ pair_sock = "open"
    /\ inq # <<>>
    /\ inq' = Tail(inq)
    /\ epc' = "process" /\ raw' = Head(inq)
    /\ UNCHANGED <<out, sidx>>
    /\ UNCHANGED <<sentlog, peer_up, broken, delivered, outbuf>>
    /\ UNCHANGED <<setVars, extVars, selfVars, mgrVars, callVars, histVars>>

\* lines 122-127: recv() returns a queued message; an empty one is skipped
WorkerRecvMsg ==
    /\ epc = "recv"
    /\ pair_sock = "open"
    /\ inq # <<>>
    /\ inq' = Tail(inq)
    /\ IF Len(Head(inq)) = 0
       THEN epc' = "top" /\ UNCHANGED raw
       ELSE epc' = "process" /\ raw' = Head(inq)
    /\ UNCHANGED <<out, sidx>>
    /\ UNCHANGED <<sentlog, peer_up, broken, delivered, outbuf>>
    /\ UNCHANGED <<setVars, extVars, selfVars, mgrVars, callVars, histVars>>

\* Mutant of WorkerProcess: the send phase is entered whatever the processor
\* did.
WorkerProcessForwarding ==
    /\ epc = "process"
    /\ \E oc \in ProcOutcomes :
        /\ proclog' = Append(proclog, [in |-> raw, outcome |-> oc])
        /\ out' = Processor(raw)
        /\ epc' = IF out_sockets # <<>> THEN "send" ELSE "reply"
        /\ sidx' = IF out_sockets # <<>> THEN 1 ELSE 0
    /\ UNCHANGED raw
    /\ UNCHANGED <<reqlog, calllog, spawned, shutdowns, sendlog, pairout, closed_mgr>>
    /\ UNCHANGED <<setVars, extVars, selfVars, mgrVars, callVars, envVars>>

\* lines 141-159: out = self.processor(raw); an exception or None ends the
\* iteration; a value goes to the outputs, or back on the engine socket when
\* self._out_sockets is empty
WorkerProcess ==
    /\ epc = "process"
    /\ \E oc \in ProcOutcomes :
        /\ proclog' = Append(proclog, [in |-> raw, outcome |-> oc])
        /\ IF oc = "value"
           THEN /\ out' = Processor(raw)
                /\ epc' = IF out_sockets # <<>> THEN "send" ELSE "reply"
                /\ sidx' = IF out_sockets # <<>> THEN 1 ELSE 0
           ELSE /\ epc' = "top"
                /\ UNCHANGED <<out, sidx>>
    /\ UNCHANGED raw
    /\ UNCHANGED <<reqlog, calllog, spawned, shutdowns, sendlog, pairout, closed_mgr>>
    /\ UNCHANGED <<setVars, extVars, selfVars, mgrVars, callVars, envVars>>

\* Mutant of SendAdvance: the loop returns after the first socket.
SendAdvanceFirstOnly == sidx' = 0 /\ epc' = "top"

\* The loop of _send_to_outputs moves on to the next socket, or returns.
SendAdvance ==
    IF sidx < Len(out_sockets)
    THEN sidx' = sidx + 1 /\ epc' = "send"
    ELSE sidx' = 0 /\ epc' = "top"

\* The socket for address a can take a message at once: its peer is connected,
\* or its send buffer has room.
Writable(a) == peer_up[a] \/ Len(outbuf[a]) < MaxBuf

\* Mutant of WorkerSend: a send to a peer that is not connected returns at once
\* and the result is lost (a non-blocking send without a buffer).
WorkerSendDropping ==
    /\ epc = "send"
    /\ LET a == out_sockets[sidx] IN
       \/ /\ out_closed \/ broken[a] \/ ~peer_up[a]
          /\ sendlog' = Append(sendlog, [out |-> a, val |-> out, ok |-> FALSE])
          /\ UNCHANGED delivered
       \/ /\ ~out_closed /\ ~broken[a] /\ peer_up[a]
          /\ sendlog' = Append(sendlog, [out |-> a, val |-> out, ok |-> TRUE])
          /\ delivered' = [delivered EXCEPT ![a] = Append(@, out)]
    /\ SendAdvance
    /\ UNCHANGED <<raw, out>>
    /\ UNCHANGED <<inq, sentlog, peer_up, broken, outbuf>>
    /\ UNCHANGED <<reqlog, calllog, spawned, shutdowns, proclog, pairout, closed_mgr>>
    /\ UNCHANGED <<setVars, extVars, selfVars, mgrVars, callVars>>

\* Mutant of WorkerSend: a socket error ends the pass over the outputs.
WorkerSendAborting ==
    /\ epc = "send"
    /\ LET a == out_sockets[sidx] IN
       \/ /\ out_closed \/ broken[a]
          /\ sendlog' = Append(sendlog, [out |-> a, val |-> out, ok |-> FALSE])
          /\ sidx' = 0 /\ epc' = "top"
          /\ UNCHANGED <<delivered, outbuf>>
       \/ /\ ~out_closed /\ ~broken[a] /\ peer_up[a]
          /\ sendlog' = Append(sendlog, [out |-> a, val |-> out, ok |-> TRUE])
          /\ delivered' = [delivered EXCEPT ![a] = Append(@, out)]
          /\ SendAdvance
          /\ UNCHANGED outbuf
       \/ /\ ~out_closed /\ ~broken[a] /\ ~peer_up[a] /\ Writable(a)
          /\ sendlog' = Append(sendlog, [out |-> a, val |-> out, ok |-> TRUE])
          /\ outbuf' = [outbuf EXCEPT ![a] = Append(@, out)]
          /\ SendAdvance
          /\ UNCHANGED delivered
    /\ UNCHANGED <<raw, out>>
    /\ UNCHANGED <<inq, sentlog, peer_up, broken>>
    /\ UNCHANGED <<reqlog, calllog, spawned, shutdowns, proclog, pairout, closed_mgr>>
    /\ UNCHANGED <<setVars, extVars, selfVars, mgrVars, callVars>>

\* _send_to_outputs lines 179-187: sock.send(data) on output number sidx.  The
\* sockets are created with send_buffer_size = out_buffer_size and dialled in
\* the background (_setup_output_sockets lines 95-102): a send returns when the
\* connected peer has taken the message or the buffer has; with the buffer full
\* and no peer it blocks.  On a closed socket or a failed peer it raises
\* NNGException, which is logged: continue with the next socket.
WorkerSend ==
    /\ epc = "send"
    /\ LET a == out_sockets[sidx] IN
       \/ /\ out_closed \/ broken[a]
          /\ sendlog' = Append(sendlog, [out |-> a, val |-> out, ok |-> FALSE])
          /\ UNCHANGED <<delivered, outbuf>>
       \/ /\ ~out_closed /\ ~broken[a] /\ peer_up[a]
          /\ sendlog' = Append(sendlog, [out |-> a, val |-> out, ok |-> TRUE])
          /\ delivered' = [delivered EXCEPT ![a] = Append(@, out)]
          /\ UNCHANGED outbuf
       \/ /\ ~out_closed /\ ~broken[a] /\ ~peer_up[a] /\ Writable(a)
          /\ sendlog' = Append(sendlog, [out |-> a, val |-> out, ok |-> TRUE])
          /\ outbuf' = [outbuf EXCEPT ![a] = Append(@, out)]
          /\ UNCHANGED delivered
    /\ SendAdvance
    /\ UNCHANGED <<raw, out>>
    /\ UNCHANGED <<inq, sentlog, peer_up, broken>>
    /\ UNCHANGED <<reqlog, calllog, spawned, shutdowns, proclog, pairout, closed_mgr>>
    /\ UNCHANGED <<setVars, extVars, selfVars, mgrVars, callVars>>

\* Mutant of WorkerReply: in reply mode the result is not sent back.
WorkerReplySilent ==
    /\ epc = "reply"
    /\ epc' = "top"
    /\ UNCHANGED <<raw, out, sidx>>
    /\ UNCHANGED <<setVars, extVars, selfVars, mgrVars, callVars, envVars, histVars>>

\* _run_loop lines 161-171: no output sockets: self._pair_sock.send(out); an
\* NNGException is logged: continue
WorkerReply ==
    /\ epc = "reply"
    /\ pairout' = IF pair_sock = "open" THEN Append(pairout, out) ELSE pairout
    /\ epc' = "top"
    /\ UNCHANGED <<raw, out, sidx>>
    /\ UNCHANGED <<reqlog, calllog, spawned, shutdowns, sendlog, proclog, closed_mgr>>
    /\ UNCHANGED <<setVars, extVars, selfVars, mgrVars, callVars, envVars>>

----------------------------------------------------------------------------
\* Environment of the engine channel.

\* A client dialled to the engine address sends the next message: message
\* number k carries the payload <<k>>, or is empty.
ClientSend ==
    /\ pair_sock = "open"
    /\ Len(sentlog) < MaxMsgs
    /\ \E m \in {<<>>, <<Len(sentlog) + 1>>} :
        /\ inq' = Append(inq, m)
        /\ sentlog' = Append(sentlog, m)
    /\ UNCHANGED <<peer_up, broken, delivered, outbuf>>
    /\ UNCHANGED <<setVars, extVars, selfVars, mgrVars, engVars, callVars, histVars>>

\* Mutant of PeerListen: what the send buffer holds is lost when the peer
\* connects.
PeerListenLosing(a) ==
    /\ \E i \in DOMAIN out_addr : out_addr[i] = a
    /\ ~peer_up[a]
    /\ peer_up' = [peer_up EXCEPT ![a] = TRUE]
    /\ outbuf' = [outbuf EXCEPT ![a] = <<>>]
    /\ UNCHANGED <<inq, sentlog, broken, delivered>>
    /\ UNCHANGED <<setVars, extVars, selfVars, mgrVars, engVars, callVars, histVars>>

\* A peer starts listening on output address a: the background dial connects
\* and the peer receives what the send buffer holds, in order.
PeerListen(a) ==
    /\ \E i \in DOMAIN out_addr : out_addr[i] = a
    /\ ~peer_up[a]
    /\ peer_up' = [peer_up EXCEPT ![a] = TRUE]
    /\ delivered' = [delivered EXCEPT ![a] = @ \o outbuf[a]]
    /\ outbuf' = [outbuf EXCEPT ![a] = <<>>]
    /\ UNCHANGED <<inq, sentlog, broken>>
    /\ UNCHANGED <<setVars, extVars, selfVars, mgrVars, engVars, callVars, histVars>>

\* One output, a, becomes unreachable for good: sends on it fail from now on
\* and what its send buffer holds is lost.
BreakOutput(a) ==
    /\ \E i \in DOMAIN out_sockets : out_sockets[i] = a
    /\ \A b \in Addrs : ~broken[b]
    /\ broken' = [broken EXCEPT ![a] = TRUE]
    /\ outbuf' = [outbuf EXCEPT ![a] = <<>>]
    /\ UNCHANGED <<inq, sentlog, peer_up, delivered>>
    /\ UNCHANGED <<setVars, extVars, selfVars, mgrVars, engVars, callVars, histVars>>

----------------------------------------------------------------------------
\* The caller thread, once the constructor has returned.

\* service.start() / engine.start()
MainStart ==
    /\ mainop = "idle"
    /\ Len(calllog) < MaxCalls
    /\ mainop' = "start"
    /\ cpc' = [cpc EXCEPT !["main"] = "start_check"]
    /\ cvia' = [cvia EXCEPT !["main"] = IF kind = "service" THEN "svc" ELSE "eng"]
    /\ UNCHANGED cres
    /\ UNCHANGED <<setVars, extVars, selfVars, mgrVars, engVars, envVars, histVars>>

\* service.stop() / engine.stop()
MainStop ==
    /\ mainop = "idle"
    /\ Len(calllog) < MaxCalls
    /\ mainop' = "stop"
    /\ cpc' = [cpc EXCEPT !["main"] = IF kind = "service" THEN "stop_check"
                                                             ELSE "estop_check"]
    /\ cvia' = [cvia EXCEPT !["main"] = IF kind = "service" THEN "svc" ELSE "eng"]
    /\ UNCHANGED cres
    /\ UNCHANGED <<setVars, extVars, selfVars, mgrVars, engVars, envVars, histVars>>

\* the call returned or raised
MainReturn ==
    /\ mainop \in {"start", "stop"}
    /\ cpc["main"] = "done"
    /\ calllog' = Append(calllog, [op |-> mainop, res |-> cres["main"]])
    /\ mainop' = "idle"
    /\ cpc' = [cpc EXCEPT !["main"] = "none"]
    /\ cres' = [cres EXCEPT !["main"] = NoRes]
    /\ UNCHANGED cvia
    /\ UNCHANGED <<reqlog, spawned, shutdowns, sendlog, proclog, pairout, closed_mgr>>
    /\ UNCHANGED <<setVars, extVars, selfVars, mgrVars, engVars, envVars>>

\* Manager._close_manager line 165: self._stop_event.set().  It is called
\* directly, or by Service.__exit__ (core.py line 261).
CloseManagerSet ==
    /\ mainop \in {"idle", "exit_close"}
    /\ kind = "service"
    /\ stop_event' = TRUE
    /\ closed_mgr' = TRUE
    /\ mainop' = "cm_close"
    /\ UNCHANGED <<ctor, has_handlers, handlers, has_running, running, thread_attr,
                   has_cfg, rep_sock, pair_sock, out_sockets, out_closed>>
    /\ UNCHANGED <<cpc, cvia, cres>>
    /\ UNCHANGED <<reqlog, calllog, spawned, shutdowns, sendlog, proclog, pairout>>
    /\ UNCHANGED <<setVars, extVars, mgrVars, engVars, envVars>>

\* Manager._close_manager lines 166-171: sleep, then self._rep_sock.close()
CloseManagerSocket ==
    /\ mainop = "cm_close"
    /\ rep_sock' = "closed"
    /\ mainop' = "cm_join"
    /\ UNCHANGED <<ctor, stop_event, has_handlers, handlers, has_running, running,
                   thread_attr, has_cfg, pair_sock, out_sockets, out_closed>>
    /\ UNCHANGED <<cpc, cvia, cres>>
    /\ UNCHANGED <<setVars, extVars, mgrVars, engVars, envVars, histVars>>

\* Manager._close_manager lines 173-175: if self._thread.is_alive():
\* self._thread.join(timeout=...).  A join with a timeout always returns.
CloseManagerJoin ==
    /\ mainop = "cm_join"
    /\ mainop' = "closed"
    /\ UNCHANGED <<cpc, cvia, cres>>
    /\ UNCHANGED <<setVars, extVars, selfVars, mgrVars, engVars, envVars, histVars>>

----------------------------------------------------------------------------
\* The caller thread uses the service as a context manager:
\*     with service: <body>
\* where the body returns, raises, or calls service.run().  calllog records
\* what each step of the scope returned or raised.

Logged(op, res) == Append(calllog, [op |-> op, res |-> res])
BodyError == Exc("RuntimeError", "raised in the body")

\* Service.__enter__ lines 249-251: setup_io(); return self
ScopeEnter ==
    /\ mainop = "idle"
    /\ kind = "service"
    /\ calllog = <<>>
    /\ mainop' = "body"
    /\ calllog' = Logged("__enter__", Ret("self"))
    /\ UNCHANGED <<cpc, cvia, cres>>
    /\ UNCHANGED <<reqlog, spawned, shutdowns, sendlog, proclog, pairout, closed_mgr>>
    /\ UNCHANGED <<setVars, extVars, selfVars, mgrVars, engVars, envVars>>

\* the body of the with statement ends normally or raises: __exit__ is entered
BodyEnds ==
    /\ mainop = "body"
    /\ \E res \in {Ret("None"), BodyError} :
        calllog' = Logged("body", res)
    /\ mainop' = "exit_check"
    /\ UNCHANGED <<cpc, cvia, cres>>
    /\ UNCHANGED <<reqlog, spawned, shutdowns, sendlog, proclog, pairout, closed_mgr>>
    /\ UNCHANGED <<setVars, extVars, selfVars, mgrVars, engVars, envVars>>

\* the body calls service.run().  Service.run lines 90-93:
\* if not getattr(self, '_running', False): self.start()
RunCheck ==
    /\ mainop = "body"
    /\ IF ~running
       THEN /\ mainop' = "run_start"
            /\ cpc' = [cpc EXCEPT !["main"] = "start_check"]
            /\ cvia' = [cvia EXCEPT !["main"] = "svc"]
       ELSE /\ mainop' = "run_wait"
            /\ UNCHANGED <<cpc, cvia>>
    /\ UNCHANGED cres
    /\ UNCHANGED <<setVars, extVars, selfVars, mgrVars, engVars, envVars, histVars>>

\* Service.run line 91: self.start() returned, or raised and the exception
\* leaves run() and the body
RunStarted ==
    /\ mainop = "run_start"
    /\ cpc["main"] = "done"
    /\ IF cres["main"].kind = "exc"
       THEN /\ mainop' = "exit_check"
            /\ calllog' = Logged("body", cres["main"])
       ELSE /\ mainop' = "run_wait"
            /\ UNCHANGED calllog
    /\ cpc' = [cpc EXCEPT !["main"] = "none"]
    /\ cres' = [cres EXCEPT !["main"] = NoRes]
    /\ UNCHANGED cvia
    /\ UNCHANGED <<reqlog, spawned, shutdowns, sendlog, proclog, pairout, closed_mgr>>
    /\ UNCHANGED <<setVars, extVars, selfVars, mgrVars, engVars, envVars>>

\* Service.run line 94: self._stop_event.wait()
RunWait ==
    /\ mainop = "run_wait"
    /\ stop_event
    /\ mainop' = "run_recheck"
    /\ UNCHANGED <<cpc, cvia, cres>>
    /\ UNCHANGED <<setVars, extVars, selfVars, mgrVars, engVars, envVars, histVars>>

\* Service.run lines 95-98: if getattr(self, '_running', False): self.stop();
\* else run() returns
RunRecheck ==
    /\ mainop = "run_recheck"
    /\ IF running
       THEN /\ mainop' = "run_stop"
            /\ cpc' = [cpc EXCEPT !["main"] = "stop_check"]
            /\ cvia' = [cvia EXCEPT !["main"] = "svc"]
            /\ UNCHANGED calllog
       ELSE /\ mainop' = "exit_check"
            /\ calllog' = Logged("body", Ret("None"))
            /\ UNCHANGED <<cpc, cvia>>
    /\ UNCHANGED cres
    /\ UNCHANGED <<reqlog, spawned, shutdowns, sendlog, proclog, pairout, closed_mgr>>
    /\ UNCHANGED <<setVars, extVars, selfVars, mgrVars, engVars, envVars>>

\* Service.run line 96: self.stop() returned and its string is logged: run()
\* returns; or it raised and the exception leaves run() and the body
RunStopped ==
    /\ mainop = "run_stop"
    /\ cpc["main"] = "done"
    /\ mainop' = "exit_check"
    /\ calllog' = Append(Logged("run.stop", cres["main"]),
                         [op |-> "body",
                          res |-> IF cres["main"].kind = "exc" THEN cres["main"]
                                  ELSE Ret("None")])
    /\ cpc' = [cpc EXCEPT !["main"] = "none"]
    /\ cres' = [cres EXCEPT !["main"] = NoRes]
    /\ UNCHANGED cvia
    /\ UNCHANGED <<reqlog, spawned, shutdowns, sendlog, proclog, pairout, closed_mgr>>
    /\ UNCHANGED <<setVars, extVars, selfVars, mgrVars, engVars, envVars>>

\* Mutant of ExitCheck: __exit__ calls stop() whatever the latch says.
ExitCheckAlwaysStop ==
    /\ mainop = "exit_check"
    /\ mainop' = "exit_stop"
    /\ cpc' = [cpc EXCEPT !["main"] = "stop_check"]
    /\ cvia' = [cvia EXCEPT !["main"] = "svc"]
    /\ UNCHANGED cres
    /\ UNCHANGED <<setVars, extVars, selfVars, mgrVars, engVars, envVars, histVars>>

\* Service.__exit__ lines 259-260: if not self._stop_event.is_set(): self.stop()
ExitCheck ==
    /\ mainop = "exit_check"
    /\ IF ~stop_event
       THEN /\ mainop' = "exit_stop"
            /\ cpc' = [cpc EXCEPT !["main"] = "stop_check"]
            /\ cvia' = [cvia EXCEPT !["main"] = "svc"]
       ELSE /\ mainop' = "exit_close"
            /\ UNCHANGED <<cpc, cvia>>
    /\ UNCHANGED cres
    /\ UNCHANGED <<setVars, extVars, selfVars, mgrVars, engVars, envVars, histVars>>

\* Service.__exit__ line 260: self.stop() returned: go on to _close_manager();
\* or it raised and the exception leaves __exit__
ExitStopped ==
    /\ mainop = "exit_stop"
    /\ cpc["main"] = "done"
    /\ IF cres["main"].kind = "exc"
       THEN /\ mainop' = "left"
            /\ calllog' = Append(Logged("stop", cres["main"]),
                                 [op |-> "__exit__", res |-> cres["main"]])
       ELSE /\ mainop' = "exit_close"
            /\ calllog' = Logged("stop", cres["main"])
    /\ cpc' = [cpc EXCEPT !["main"] = "none"]
    /\ cres' = [cres EXCEPT !["main"] = NoRes]
    /\ UNCHANGED cvia
    /\ UNCHANGED <<reqlog, spawned, shutdowns, sendlog, proclog, pairout, closed_mgr>>
    /\ UNCHANGED <<setVars, extVars, selfVars, mgrVars, engVars, envVars>>

\* Service.__exit__ line 262: _close_manager() returned; return False
ExitReturn ==
    /\ mainop = "closed"
    /\ calllog # <<>> /\ calllog[1].op = "__enter__"
    /\ mainop' = "left"
    /\ calllog' = Logged("__exit__", Ret("False"))
    /\ UNCHANGED <<cpc, cvia, cres>>
    /\ UNCHANGED <<reqlog, spawned, shutdowns, sendlog, proclog, pairout, closed_mgr>>
    /\ UNCHANGED <<setVars, extVars, selfVars, mgrVars, engVars, envVars>>

Scope ==
    \/ ScopeEnter \/ BodyEnds \/ RunCheck \/ RunStarted \/ RunWait \/ RunRecheck
    \/ RunStopped \/ ExitCheck \/ ExitStopped
    \/ CloseManagerSet \/ CloseManagerSocket \/ CloseManagerJoin \/ ExitReturn

----------------------------------------------------------------------------
Construct ==
    \/ ManagerInit \/ ManagerHandlers \/ ManagerDiscover
    \/ EngineInitEvent \/ EngineInitRunning \/ EngineInitThread \/ EngineInitSockets
    \/ EngineInitAutostart \/ EngineInitAutostartDone \/ ServiceInitConfig

Frames ==
    \E t \in Threads :
        \/ StartCheck(t) \/ StartSet(t) \/ StartThread(t)
        \/ StopCheck(t) \/ StopSet(t)
        \/ EStopCheck(t) \/ EStopClear(t) \/ EStopLatch(t)
        \/ EStopCloseInput(t) \/ EStopCloseOutputs(t) \/ EStopJoin(t)

ManagerWorker ==
    \/ MgrTop \/ MgrRecvTimeout \/ MgrRecvClosed \/ MgrRecv \/ MgrDedup
    \/ MgrHandle \/ MgrCallReturn \/ MgrSend

WorkerControl == WorkerTop \/ WorkerRecvTimeout \/ WorkerRecvClosed

Caller ==
    \/ MainStart \/ MainStop \/ MainReturn
    \/ CloseManagerSet \/ CloseManagerSocket \/ CloseManagerJoin

\* A Service under construction and in use: commands on the command channel,
\* direct calls of the API, teardown.  No client is connected to the engine
\* channel.
Next == Construct \/ Frames \/ ManagerWorker \/ WorkerControl \/ Caller

Spec == Init /\ [][Next]_vars

----------------------------------------------------------------------------
\* Properties of the command channel and of start()/stop().

\* The request with index i of reqlog has been dealt with: a later request was
\* received, or the worker is back at the head of its loop.
Served(i) == i < Len(reqlog) \/ mpc \in {"top", "recv"}

\* C1: on the command channel every received request gets exactly one reply
\* before the next request is received (as long as teardown has not begun).
C1_OneReplyPerRequest ==
    ~closed_mgr => \A i \in DOMAIN reqlog : Served(i) => Len(reqlog[i].replies) = 1

\* C2: once the lifecycle latch is set, the Manager worker goes on serving
\* commands until _close_manager is called.
C2_ManagerServesUntilClose ==
    (ctor = "done" /\ stop_event /\ ~closed_mgr) => mpc # "exited"

\* C5: every stop request received after the lifecycle latch was set is
\* answered "already stopping or stopped".
C5_StopAfterLatchAnswered ==
    \A i \in DOMAIN reqlog :
        (~closed_mgr /\ Served(i) /\ reqlog[i].built /\ reqlog[i].latch /\ Lower(reqlog[i].cmd) = STOP)
            => reqlog[i].replies = <<Reply("already stopping or stopped")>>

\* C6: the lifecycle latch is monotonic: once set it is never observed unset.
C6_LatchMonotonic == [][stop_event => stop_event']_vars

\* The manager worker is serving a request with the given verb that it received
\* after the constructor had returned.
MgrServing(verb) ==
    /\ mpc \in {"call", "send"}
    /\ reqlog[Len(reqlog)].built
    /\ VerbOf(mcmd) = verb

\* Thread t has passed the check of Engine.start and not yet returned.
InStart(t) == cpc[t] \in {"start_set", "start_thread"}

\* C7: start() invoked concurrently by the Manager worker and the caller thread
\* on an engine that was never stopped: only one of them gets past the running
\* check, and neither call raises.
C7_ConcurrentStartOnce ==
    (mainop = "start" /\ MgrServing(START) /\ ~stop_event /\ cpc["mgr"] # "none")
        => /\ ~(InStart("mgr") /\ InStart("main"))
           /\ \A t \in Threads : cpc[t] = "done" => cres[t].kind = "ret"

\* C8: stop invoked concurrently by the Manager worker and the caller thread:
\* the shutdown sequence runs once, and at most one of them obtains
\* "engine stopped".
C8_ConcurrentStopOnce ==
    (mainop = "stop" /\ MgrServing(STOP))
        => /\ Len(shutdowns) <= 1
           /\ ~(/\ cpc["main"] = "done" /\ cres["main"] = Ret("engine stopped")
                /\ \/ cpc["mgr"] = "done" /\ cres["mgr"] = Ret("engine stopped")
                   \/ mpc = "send" /\ mreply = Reply("engine stopped"))

----------------------------------------------------------------------------
\* A bare Engine under construction and in use: a client on the engine
\* channel, peers on the output addresses, one caller thread that calls
\* start() and stop().

OutConfigs == {<<>>, [i \in 1..MaxOut |-> i]}

EngineInit ==
    /\ InitCommon
    /\ kind = "engine"
    /\ ctor = "eng_event"
    /\ out_addr \in OutConfigs

EngineWorker ==
    \/ WorkerTop \/ WorkerRecvTimeout \/ WorkerRecvClosed
    \/ WorkerRecvMsg \/ WorkerProcess \/ WorkerSend \/ WorkerReply

EngineNext ==
    \/ EngineInitEvent \/ EngineInitRunning \/ EngineInitThread \/ EngineInitSockets
    \/ EngineInitAutostart \/ EngineInitAutostartDone
    \/ StartCheck("main") \/ StartSet("main") \/ StartThread("main")
    \/ EStopCheck("main") \/ EStopClear("main") \/ EStopLatch("main")
    \/ EStopCloseInput("main") \/ EStopCloseOutputs("main") \/ EStopJoin("main")
    \/ MainStart \/ MainStop \/ MainReturn
    \/ EngineWorker
    \/ ClientSend
    \/ \E a \in Addrs : PeerListen(a) \/ BreakOutput(a)

EngineSpec == EngineInit /\ [][EngineNext]_vars

\* The worker thread is scheduled fairly and every peer eventually listens.
FairEngineSpec ==
    /\ EngineSpec
    /\ WF_vars(EngineWorker)
    /\ \A a \in Addrs : WF_vars(PeerListen(a))

----------------------------------------------------------------------------
\* Properties of the engine.

\* The engine state: running while self._running is true; stopping from the
\* moment stop() has cleared the flag until that stop() call ends; stopped
\* otherwise.
InShutdown(t) == cpc[t] \in {"estop_latch", "estop_close_in", "estop_close_out", "estop_join"}
EngineState ==
    IF has_running /\ running THEN "running"
    ELSE IF \E t \in Threads : InShutdown(t) THEN "stopping"
    ELSE "stopped"

\* C3: under any sequence of start() and stop() calls the engine state only
\* changes stopped -> running (in start), running -> stopping and
\* stopping -> stopped (in stop).
C3_EngineTransitions ==
    [][\/ EngineState' = EngineState
       \/ /\ EngineState = "stopped" /\ EngineState' = "running"
          /\ mainop = "start" \/ ctor = "autostart_call"
       \/ /\ EngineState = "running" /\ EngineState' = "stopping"
          /\ mainop = "stop"
       \/ /\ EngineState = "stopping" /\ EngineState' = "stopped"
          /\ mainop = "stop"]_vars

\* C3 witness: a stop() call is half way through while the worker is alive.
C3_Witness == EngineState = "stopping" /\ eng_thread = "alive" /\ Len(calllog) = 1

\* C4: start() never raises: each call returns "engine started" (and has
\* spawned the one worker) or "engine already running".
C4_StartIdempotent ==
    /\ spawned <= 1
    /\ \A i \in DOMAIN calllog :
        calllog[i].op = "start" =>
            calllog[i].res \in {Ret("engine started"), Ret("engine already running")}

\* The results the processor has returned, in the order of its invocations.
RECURSIVE ValuesOf(_)
ValuesOf(log) ==
    IF log = <<>> THEN <<>>
    ELSE IF Head(log).outcome = "value"
         THEN <<Processor(Head(log).in)>> \o ValuesOf(Tail(log))
         ELSE ValuesOf(Tail(log))
Values == ValuesOf(proclog)

IsPrefix(s, t) == Len(s) <= Len(t) /\ SubSeq(t, 1, Len(s)) = s

\* The processor was invoked on message number k and gave no result.
Dropped(k) == \E i \in DOMAIN proclog : proclog[i].in = <<k>> /\ proclog[i].outcome # "value"

C10_SendPassesInOrder ==
    LET n == Len(out_sockets) IN
    /\ \A j \in DOMAIN sendlog :
        /\ ((j - 1) \div n) + 1 \in DOMAIN Values
        /\ sendlog[j].out = out_sockets[((j - 1) % n) + 1]
        /\ sendlog[j].val = Values[((j - 1) \div n) + 1]
    /\ epc = "send" => Len(sendlog) % n = sidx - 1
    /\ epc # "send" => Len(sendlog) = n * Len(Values)
    /\ \A a \in Addrs : \A j \in DOMAIN delivered[a] :
        \E k \in DOMAIN sentlog : sentlog[k] # <<>> /\ delivered[a][j] = Processor(sentlog[k])

\* C10 witness: two results have each been sent to both outputs.
C10_Witness == Len(out_sockets) >= 2 /\ Len(sendlog) = 2 * Len(out_sockets) /\ epc = "top"

----------------------------------------------------------------------------
\* Properties of the message path.

\* C11: with no output sockets the engine sends the results back on the engine
\* socket, one reply per processed input and in input order: the replies are
\* the processor's results so far (all of them while the socket is open and no
\* reply is pending), and nothing is sent on an output.
C11_OneReplyPerInput ==
    (ctor = "done" /\ out_sockets = <<>>) =>
        /\ sendlog = <<>>
        /\ IsPrefix(pairout, Values)
        /\ (pair_sock = "open" /\ epc # "reply") => pairout = Values

\* C11 witness: two messages were answered on the engine socket, in order.
C11_Witness ==
    /\ out_sockets = <<>> /\ ctor = "done"
    /\ pairout = <<Processor(<<1>>), Processor(<<2>>)>>

\* The values passed to send() on the socket for address a, in order.
RECURSIVE SendsOf(_, _)
SendsOf(log, a) ==
    IF log = <<>> THEN <<>>
    ELSE IF Head(log).out = a THEN <<Head(log).val>> \o SendsOf(Tail(log), a)
    ELSE SendsOf(Tail(log), a)
SendsTo(a) == SendsOf(sendlog, a)

\* The engine is not in a run, or the run is being ended.
NotInRun == EngineState # "running" \/ stop_event \/ eng_thread = "new"

\* The worker is inside send() on the socket for a with the result of message k,
\* and the socket is not writable.
Blocked(a, k) ==
    /\ epc = "send" /\ sidx \in DOMAIN out_sockets /\ out_sockets[sidx] = a
    /\ out = Processor(<<k>>)
    /\ ~out_closed /\ ~broken[a] /\ ~Writable(a)

\* Every non-empty message the client has sent has reached the peer on a, or
\* the processor gave no result for it.
AllDelivered(a) ==
    \A k \in DOMAIN sentlog :
        sentlog[k] # <<>> =>
            \/ \E j \in DOMAIN delivered[a] : delivered[a][j] = Processor(sentlog[k])
            \/ Dropped(k)

SendFailed ==
    /\ Len(sendlog') = Len(sendlog) + 1
    /\ ~sendlog'[Len(sendlog')].ok

\* C13: a send that fails with a socket error on one output does not end the
\* pass or the run: the worker goes on to the next output with the same result
\* (or, after the last output, to the next message), the running flag is
\* untouched, and every output that works is sent every result.
C13_SendErrorSkipsOneOutput ==
    /\ [][SendFailed =>
            /\ running' = running /\ out' = out
            /\ IF sidx < Len(out_sockets)
               THEN epc' = "send" /\ sidx' = sidx + 1
               ELSE epc' = "top"]_vars
    /\ [](\A a \in Addrs :
            (/\ \E i \in DOMAIN out_sockets : out_sockets[i] = a
             /\ ~out_closed /\ ~broken[a] /\ epc # "send")
                => SendsTo(a) = Values)

\* C13 witness: the first output failed before the first result was sent; the
\* second output has received both results and the engine is still running.
C13_Witness ==
    /\ Len(out_sockets) >= 2 /\ broken[1] /\ ~out_closed
    /\ Len(sendlog) = 4 /\ ~sendlog[1].ok /\ ~sendlog[3].ok
    /\ delivered[2] = <<Processor(<<1>>), Processor(<<2>>)>>
    /\ running /\ epc = "top"

\* This step is a processor call that raised or returned None.
ProcFailed ==
    /\ Len(proclog') = Len(proclog) + 1
    /\ proclog'[Len(proclog')].outcome # "value"

\* The set of results the processor has returned.
ValueSet == {Values[i] : i \in DOMAIN Values}

\* C14: a message for which the processor raises or returns None causes no
\* send on an output and no reply on the engine socket, and the worker is back
\* at the head of its loop, still running; whatever is sent anywhere is a
\* result the processor returned.
C14_ProcessorFailureDropsMessage ==
    /\ [][ProcFailed =>
            /\ sendlog' = sendlog /\ pairout' = pairout
            /\ delivered' = delivered /\ outbuf' = outbuf
            /\ epc' = "top" /\ running' = running]_vars
    /\ [](/\ \A j \in DOMAIN sendlog : sendlog[j].val \in ValueSet
          /\ \A j \in DOMAIN pairout : pairout[j] \in ValueSet
          /\ epc \notin {"send", "reply"} =>
                Len(sendlog) = Len(out_sockets) * Len(Values)
                /\ Len(pairout) <= Len(Values))

\* C14 witness: the processor raised on the first message; the second message
\* was processed and its result reached the first output.
C14_Witness ==
    /\ Len(proclog) = 2
    /\ proclog[1].outcome = "Exception" /\ proclog[2].outcome = "value"
    /\ out_sockets # <<>> /\ delivered[1] = <<Processor(<<2>>)>>

\* The non-empty messages of a sequence, in order.
RECURSIVE NonEmpty(_)
NonEmpty(q) ==
    IF q = <<>> THEN <<>>
    ELSE IF Head(q) = <<>> THEN NonEmpty(Tail(q))
    ELSE <<Head(q)>> \o NonEmpty(Tail(q))

\* This step is a recv() that returned an empty payload.
RecvEmpty == inq # <<>> /\ Head(inq) = <<>> /\ inq' = Tail(inq)

\* C15: an empty input payload is dropped: the step that receives it invokes no
\* processor and sends nothing, on an output or on the engine socket, and the
\* worker is back at the head of its loop; the processor is only ever invoked
\* on the non-empty messages, in the order they were sent.
C15_EmptyPayloadDropped ==
    /\ [][RecvEmpty =>
            /\ proclog' = proclog /\ sendlog' = sendlog /\ pairout' = pairout
            /\ delivered' = delivered /\ outbuf' = outbuf
            /\ epc' = "top"]_vars
    /\ [](IsPrefix([i \in DOMAIN proclog |-> proclog[i].in], NonEmpty(sentlog)))

\* C15 witness: an empty payload and then a message were received, in fan-out
\* mode or in reply mode; the processor ran once and only the message's result
\* was sent.
C15_Witness ==
    /\ sentlog = <<<<>>, <<2>>>> /\ inq = <<>> /\ epc = "top"
    /\ proclog = <<[in |-> <<2>>, outcome |-> "value"]>>
    /\ \/ out_sockets # <<>> /\ Len(sendlog) = Len(out_sockets)
       \/ out_sockets = <<>> /\ pairout = <<Processor(<<2>>)>>

----------------------------------------------------------------------------
\* Properties of stop().

\* The statements of Engine.stop executed by the caller thread.
StopFrames ==
    \/ EStopCheck("main") \/ EStopClear("main") \/ EStopLatch("main")
    \/ EStopCloseInput("main") \/ EStopCloseOutputs("main") \/ EStopJoin("main")

\* The worker thread is scheduled fairly and a stop() that was entered runs on;
\* nothing is assumed about the peers.
FairStopSpec == EngineSpec /\ WF_vars(EngineWorker) /\ WF_vars(StopFrames)

\* stop() has been called on a running engine: it is past the running check.
StopEntered == mainop = "stop" /\ cpc["main"] = "estop_clear"

\* A stop() call ended with the input socket's close() raising.
StopCloseFailed ==
    \/ cres["main"] = Exc("EngineException", MsgCloseFailed)
    \/ \E i \in DOMAIN calllog : calllog[i].res = Exc("EngineException", MsgCloseFailed)

EngineDown ==
    /\ has_running /\ ~running /\ stop_event
    /\ pair_sock = "closed" /\ out_closed
    /\ eng_thread = "dead"

\* No call of the other thread overlaps, or preceded, the stop that thread t is
\* executing: for the caller thread no command was ever received; for the
\* Manager worker every command was received after construction and the
\* caller thread has made no call.
StopAlone(t) ==
    IF t = "main" THEN reqlog = <<>>
    ELSE /\ \A i \in DOMAIN reqlog : reqlog[i].built
         /\ calllog = <<>> /\ mainop = "idle"

CmdInit ==
    /\ InitCommon
    /\ kind = "service"
    /\ ctor = "mgr_init"
    /\ engine_autostart = TRUE
    /\ out_addr = <<>>

CmdNext ==
    \/ Construct
    \/ StartCheck("main") \/ StartSet("main") \/ StartThread("main")
    \/ StopCheck("mgr") \/ StopSet("mgr")
    \/ EStopCheck("mgr") \/ EStopClear("mgr") \/ EStopLatch("mgr")
    \/ EStopCloseInput("mgr") \/ EStopCloseOutputs("mgr") \/ EStopJoin("mgr")
    \/ MgrTop \/ MgrRecvTimeout \/ MgrRecvFrom({STOP, PING}) \/ MgrDedup
    \/ MgrHandle \/ MgrCallReturn \/ MgrSend
    \/ WorkerTop \/ WorkerRecvTimeout \/ WorkerRecvClosed
    \/ WorkerRecvMsg \/ WorkerProcess \/ WorkerReply
    \/ ClientSend

CmdSpec == CmdInit /\ [][CmdNext]_vars

\* The step in which Engine.stop, executed by thread t, fails with message m:
\* closing the input socket raised, or the worker was still alive when the
\* join timeout ran out.
StopFails(t, m) ==
    /\ cpc'[t] = "done"
    /\ \/ cpc[t] = "estop_close_in" /\ pair_sock # "none" /\ m = MsgCloseFailed
       \/ cpc[t] = "estop_join" /\ self_thread = "alive" /\ m = MsgJoinTimeout

\* C18: when Engine.stop cannot close the input socket, or the worker outlives
\* the join timeout, the caller of Engine.stop gets an EngineException; a
\* caller that came through Service.stop gets the string "error: failed to
\* stop engine - <message>" instead, and that string, not "engine stopped", is
\* the reply of the `stop` command.
C18_StopFailureSurfaced ==
    /\ [][\A t \in Threads : \A m \in {MsgCloseFailed, MsgJoinTimeout} :
            StopFails(t, m) =>
                cres'[t] = IF cvia[t] = "svc"
                           THEN RetErr("error: failed to stop engine - ", m)
                           ELSE Exc("EngineException", m)]_vars
    /\ [][(mpc = "call" /\ mpc' = "send") => mreply' = cres["mgr"].val]_vars

\* C18 witness: the `stop` command was served while the worker was inside the
\* processor; the join timed out and the error reply is about to be sent.
C18_Witness ==
    /\ mpc = "send" /\ VerbOf(mcmd) = STOP
    /\ mreply = Reply2("error: failed to stop engine - ", MsgJoinTimeout)
    /\ epc = "process"

----------------------------------------------------------------------------
\* Properties of command dispatch

\* The handler called for the request being served raised an exception.
HandlerRaised == mpc = "call" /\ cpc["mgr"] = "done" /\ cres["mgr"].kind = "exc"

\* C19: when a command handler raises, the reply of that request is
\* "error: <message>" and the Manager worker goes back to the top of its loop;
\* the worker exits only in a step that finds the stop latch set or the command
\* socket closed, and as long as neither happened every received request has got
\* exactly one reply by the time the worker is back at its receive.
C19_HandlerErrorKeepsManager ==
    /\ [][(HandlerRaised /\ mpc' # mpc) =>
            /\ mpc' = "send"
            /\ mreply' = Reply2("error: ", cres["mgr"].val.detail)]_vars
    /\ [][(mpc = "send" /\ rep_sock = "open" /\ mpc' # mpc) =>
            /\ mpc' = "top"
            /\ reqlog'[Len(reqlog)].replies = <<mreply>>]_vars
    /\ [][(mpc # "exited" /\ mpc' = "exited") =>
            (stop_event \/ rep_sock = "closed")]_vars
    /\ []((mpc \in {"top", "recv"} /\ ~stop_event /\ rep_sock = "open") =>
            \A i \in 1..Len(reqlog) : Len(reqlog[i].replies) = 1)

\* C19 witness: the first request was answered with the message of the
\* exception its handler raised, no stop was requested, and the second request
\* has been received and answered too.
C19_Witness ==
    /\ Len(reqlog) = 2 /\ ~stop_event /\ rep_sock = "open" /\ mpc = "top"
    /\ reqlog[1].replies = <<Reply2("error: ", MsgStartTwice)>>
    /\ Len(reqlog[2].replies) = 1

\* A Service under construction and in use, with commands in any spelling on
\* the command channel; no direct calls, no teardown.
DispatchNext ==
    \/ Construct
    \/ Frames
    \/ MgrTop \/ MgrRecvTimeout \/ MgrRecvFrom(Spellings) \/ MgrDedup
    \/ MgrHandle \/ MgrCallReturn \/ MgrSend
    \/ WorkerControl
DispatchSpec == Init /\ [][DispatchNext]_vars

\* The request being served and its verb, lower-cased.
CurReq == reqlog[Len(reqlog)]
CurVerb == Lower(SplitSpaceHead(mcmd))

\* C20: dispatch is by the lower-cased verb with fixed priority.  When the
\* verb is a registered handler, that handler is invoked: with the command
\* string if it takes one, otherwise without argument (start and stop are
\* entered, status and reconfigure produce their reply).  Otherwise the verb
\* ping replies "pong"; otherwise the reply is "unknown command: <cmd>" with
\* the command as it was received.  PING, Ping and ping reply "pong".
C20_DispatchByLowerVerb ==
    /\ [][(mpc = "handle" /\ mpc' # mpc /\ has_handlers) =>
            IF CurVerb \in handlers
            THEN /\ CurReq'.call = IF CurVerb \in {STATUS, RECONFIGURE} THEN "cmd" ELSE "noarg"
                 /\ CurVerb = START => (mpc' = "call" /\ cpc'["mgr"] = "start_check")
                 /\ CurVerb = STOP => (mpc' = "call" /\ cpc'["mgr"] = "stop_check")
                 /\ CurVerb = STATUS => (mpc' = "send" /\ mreply' = StatusReply)
                 /\ CurVerb = RECONFIGURE => (mpc' = "send" /\ mreply' = ReconfigureReply)
            ELSE /\ mpc' = "send"
                 /\ CurReq'.call = IF CurVerb = PING THEN "ping" ELSE "unknown"
                 /\ mreply' = IF CurVerb = PING THEN Reply("pong")
                               ELSE UnknownReply(mcmd)]_vars
    /\ [](\A i \in DOMAIN reqlog :
            (/\ reqlog[i].built
             /\ SplitSpaceHead(reqlog[i].cmd) \in {PING, PING_UPPER, PING_MIXED}
             /\ reqlog[i].replies # <<>>)
                => reqlog[i].replies = <<Reply("pong")>>)
    /\ [](\A i \in DOMAIN reqlog :
            (reqlog[i].built /\ reqlog[i].call = "unknown" /\ reqlog[i].replies # <<>>)
                => reqlog[i].replies = <<UnknownReply(reqlog[i].cmd)>>)

\* C20 witness: "Ping X" was answered "pong" and "START", received after
\* construction, was dispatched to the start handler without argument.
C20_Witness ==
    /\ Len(reqlog) = 2
    /\ reqlog[1].cmd = PING_ARG /\ reqlog[1].replies = <<Reply("pong")>>
    /\ reqlog[2].cmd = START_UPPER /\ reqlog[2].built /\ reqlog[2].call = "noarg"
    /\ reqlog[2].replies # <<>>

----------------------------------------------------------------------------
\* The engine with a faulty input socket.

\* Mutant of WorkerRecvError: any socket error on receive ends the worker.
WorkerRecvErrorFatal ==
    /\ epc = "recv"
    /\ pair_sock = "open"
    /\ Len(faultlog) < MaxFaults
    /\ faultlog' = Append(faultlog, "recv")
    /\ epc' = "exited"
    /\ UNCHANGED <<raw, out, sidx, setuplog>>
    /\ UNCHANGED <<cfgVars, idVars, hdlVars>>
    /\ UNCHANGED <<setVars, selfVars, mgrVars, callVars, envVars, histVars>>

\* _run_loop lines 130-135: recv() on the open socket raises NNGException:
\* break if the engine is stopping, else log and continue
WorkerRecvError ==
    /\ epc = "recv"
    /\ pair_sock = "open"
    /\ Len(faultlog) < MaxFaults
    /\ faultlog' = Append(faultlog, "recv")
    /\ epc' = IF ~running \/ stop_event THEN "exited" ELSE "top"
    /\ UNCHANGED <<raw, out, sidx, setuplog>>
    /\ UNCHANGED <<cfgVars, idVars, hdlVars>>
    /\ UNCHANGED <<setVars, selfVars, mgrVars, callVars, envVars, histVars>>

\* _run_loop lines 167-171: self._pair_sock.send(out) on the open socket raises
\* NNGException: logged, continue
WorkerReplyError ==
    /\ epc = "reply"
    /\ pair_sock = "open"
    /\ Len(faultlog) < MaxFaults
    /\ faultlog' = Append(faultlog, "reply")
    /\ epc' = "top"
    /\ UNCHANGED <<raw, out, sidx, setuplog>>
    /\ UNCHANGED <<cfgVars, idVars, hdlVars>>
    /\ UNCHANGED <<setVars, selfVars, mgrVars, callVars, envVars, histVars>>

FaultNext == EngineNext \/ WorkerRecvError \/ WorkerReplyError
FaultSpec == EngineInit /\ [][FaultNext]_vars

\* The engine is running and no stop has been requested.
Steady == has_running /\ running /\ ~stop_event

\* The worker's step ran into an error: a receive that returned no message
\* (timeout or socket error), a processor exception, a failed send on an
\* output, a failed reply on the engine socket.
RecvErrorStep  == epc = "recv" /\ epc' # epc /\ inq' = inq
ProcErrorStep  == /\ epc = "process" /\ Len(proclog') = Len(proclog) + 1
                  /\ proclog'[Len(proclog')].outcome \in {"ProcessorException", "Exception"}
SendErrorStep  == /\ epc = "send" /\ Len(sendlog') = Len(sendlog) + 1
                  /\ ~sendlog'[Len(sendlog')].ok
ReplyErrorStep == epc = "reply" /\ epc' # epc /\ pairout' = pairout

\* C30: while the engine is running and no stop has been requested, a receive
\* timeout, a receive error, a processor error and a failed reply take the
\* worker back to the top of its loop, a failed send takes it to the next
\* output or back to the top, and from the top it goes to the receive; the
\* worker exits only in a step that finds the engine stopping.
C30_WorkerSurvivesErrors ==
    /\ [][(Steady /\ (RecvErrorStep \/ ProcErrorStep \/ ReplyErrorStep)) => epc' = "top"]_vars
    /\ [][(Steady /\ SendErrorStep) =>
            \/ epc' = "send" /\ sidx' = sidx + 1
            \/ epc' = "top" /\ sidx = Len(out_sockets)]_vars
    /\ [][(Steady /\ epc = "top" /\ epc' # epc) => epc' = "recv"]_vars
    /\ [][(epc # "exited" /\ epc' = "exited") => ~Steady]_vars

\* C30 witness: a socket error on receive, a processor exception and a failed
\* send have all happened, and the worker is in the receive phase of a running
\* engine.
C30_Witness ==
    /\ Steady /\ epc = "recv"
    /\ faultlog = <<"recv">>
    /\ \E i \in DOMAIN proclog : proclog[i].outcome = "Exception"
    /\ \E i \in DOMAIN sendlog : ~sendlog[i].ok

----------------------------------------------------------------------------
\* Service.reconfigure: the command text.

\* str.split(maxsplit=n) without separator: words separated by runs of
\* whitespace; after n words the rest, leading whitespace removed, is the last
\* part.
RECURSIVE WordHead(_)
WordHead(s) ==
    IF s = <<>> \/ Head(s) \in Whitespace THEN <<>> ELSE <<Head(s)>> \o WordHead(Tail(s))
RECURSIVE WordRest(_)
WordRest(s) == IF s = <<>> \/ Head(s) \in Whitespace THEN s ELSE WordRest(Tail(s))
RECURSIVE SplitMax(_, _)
SplitMax(s, n) ==
    LET r == LStrip(s) IN
    IF r = <<>> THEN <<>>
    ELSE IF n = 0 THEN <<r>>
    ELSE <<WordHead(r)>> \o SplitMax(WordRest(r), n - 1)

\* json.loads on the payloads of the model.  A payload is an object
\* "{" field ... "}" whose fields are a key character followed by a value
\* character (t7, t8, t2: threshold 0.7, 0.8, 2.0; eT, eF: enabled; ox: a key
\* no schema declares), with whitespace allowed between them; or the scalar 5.
\* Anything else is a JSONDecodeError.
JsonError == Json("error", EmptyDoc)
FieldValue(k, v) ==
    IF k = "t" /\ v = "7" THEN "0.7"
    ELSE IF k = "t" /\ v = "8" THEN "0.8"
    ELSE IF k = "t" /\ v = "2" THEN "2.0"
    ELSE IF k = "e" /\ v = "T" THEN "true"
    ELSE IF k = "e" /\ v = "F" THEN "false"
    ELSE IF k = "o" /\ v = "x" THEN "x"
    ELSE Absent
RECURSIVE ParseFields(_, _)
ParseFields(s, d) ==
    LET r == LStrip(s) IN
    IF r = <<>> THEN Json("dict", d)
    ELSE IF Len(r) < 2 \/ FieldValue(r[1], r[2]) = Absent THEN JsonError
    ELSE ParseFields(SubSeq(r, 3, Len(r)),
                     IF r[1] = "t" THEN [d EXCEPT !.threshold = FieldValue(r[1], r[2])]
                     ELSE IF r[1] = "e" THEN [d EXCEPT !.enabled = FieldValue(r[1], r[2])]
                     ELSE [d EXCEPT !.other = FieldValue(r[1], r[2])])
JsonLoads(p) ==
    LET r == Strip(p) IN
    IF r = <<"5">> THEN Json("scalar", EmptyDoc)
    ELSE IF Len(r) >= 2 /\ r[1] = "{" /\ r[Len(r)] = "}"
         THEN ParseFields(SubSeq(r, 2, Len(r) - 1), EmptyDoc)
    ELSE JsonError

\* Service.reconfigure lines 148-162: the persist flag and the payload text
PERSIST == <<"p","e","r","s","i","s","t">>
RcParts(cmd) == SplitMax(cmd, 2)
\* Mutant of RcPersist: the keyword is recognised in lower case only.
RcPersistExact(cmd) == Len(RcParts(cmd)) >= 2 /\ RcParts(cmd)[2] = PERSIST
RcPersist(cmd) == Len(RcParts(cmd)) >= 2 /\ Lower(RcParts(cmd)[2]) = PERSIST
RcPayload(cmd) ==
    IF cmd = <<>> \/ Len(RcParts(cmd)) < 2 THEN <<>>
    ELSE IF RcPersist(cmd)
         THEN (IF Len(RcParts(cmd)) > 2 THEN RcParts(cmd)[3] ELSE <<>>)
    ELSE SplitMax(cmd, 1)[2]

\* The payloads and the reconfigure commands a client sends.
P_BOTH    == <<"{","t","8"," ","e","F","}">>
P_LOW     == <<"{","t","7","}">>
P_RANGE   == <<"{","t","2"," ","e","T","}">>
P_EMPTY   == <<"{","}">>
P_EXTRA   == <<"{","o","x"," ","t","8","}">>
P_SCALAR  == <<"5">>
P_BROKEN  == <<"{","t","8">>
Payloads  == {P_BOTH, P_LOW, P_RANGE, P_EMPTY, P_EXTRA, P_SCALAR, P_BROKEN}
RcCommands ==
    {RECONFIGURE, RECONFIGURE \o <<" ">> \o PERSIST}
    \cup {RECONFIGURE \o <<" ">> \o q : q \in Payloads}
    \cup {RECONFIGURE \o <<" ">> \o PERSIST \o <<" ">> \o q : q \in Payloads}
    \cup {RECONFIGURE \o <<" ","P","e","r","s","i","s","t"," "," ">> \o P_BOTH}

----------------------------------------------------------------------------
\* ConfigManager, statement by statement, executed by thread t.

KGoto(t, label) == kpc' = [kpc EXCEPT ![t] = label]

\* The top-level operation of thread t ends with the given outcome; what
\* _configs and the file hold at that moment is recorded.
KDone(t, outcome) ==
    /\ kpc' = [kpc EXCEPT ![t] = "idle"]
    /\ kloc' = [kloc EXCEPT ![t] = NoLoc]
    /\ cfg_log' = Append(cfg_log, [op |-> kloc[t].op, by |-> t, cmd |-> kloc[t].cmd,
                                    persist |-> kloc[t].persist, data |-> kloc[t].data,
                                    mem0 |-> kloc[t].mem0, outcome |-> outcome,
                                    mem |-> cfg_mem', file |-> cfg_file'])

\* An exception leaves update/save/load.  Service.reconfigure lines 178-179
\* turn it into a reply; ConfigManager.__init__ lets it through, so no
\* ConfigManager exists; a direct call raises it to the caller.
KRaise(t, exc) ==
    IF kloc[t].op = "init"
    THEN /\ kpc' = [u \in Threads |-> "down"]
         /\ kloc' = [kloc EXCEPT ![t] = NoLoc]
         /\ cfg_log' = Append(cfg_log, [op |-> "init", by |-> t, cmd |-> <<>>,
                                        persist |-> FALSE, data |-> kloc[t].data,
                                        mem0 |-> kloc[t].mem0, outcome |-> exc,
                                        mem |-> cfg_mem', file |-> cfg_file'])
    ELSE KDone(t, IF kloc[t].op = "reconfigure"
                  THEN "reconfigure: error - " \o exc ELSE exc)

\* save() returned normally to its caller: reconfigure replies ok (line 177),
\* load and __init__ return, a direct save() returns.
AfterSave(t) ==
    KDone(t, IF kloc[t].op = "reconfigure" THEN "reconfigure: ok" ELSE "None")

\* Service.reconfigure lines 142-170, up to the call of update: the command
\* is parsed and the payload decoded.  Threads in `alone` must be idle.
RcParse(t, alone) ==
    /\ \A u \in alone : kpc[u] = "idle"
    /\ kpc[t] = "idle"
    /\ Len(cfg_log) < MaxOps
    /\ \E cmd \in RcCommands :
        LET payload == RcPayload(cmd)
            data    == JsonLoads(payload)
            loc     == Loc("reconfigure", cmd, RcPersist(cmd), data, cfg_mem) IN
        IF payload = <<>> \/ data = JsonError
        THEN /\ cfg_log' = Append(cfg_log,
                    [op |-> "reconfigure", by |-> t, cmd |-> cmd,
                     persist |-> RcPersist(cmd), data |-> data, mem0 |-> cfg_mem,
                     outcome |-> IF payload = <<>> THEN "reconfigure: no-op (no payload)"
                                 ELSE "reconfigure: invalid JSON",
                     mem |-> cfg_mem, file |-> cfg_file])
             /\ UNCHANGED <<kpc, kloc>>
        ELSE /\ kloc' = [kloc EXCEPT ![t] = loc]
             /\ KGoto(t, "upd_lock")
             /\ UNCHANGED cfg_log
    /\ UNCHANGED <<cfg_schema, cfg_file, cfg_mem, cfg_lock>>
    /\ UNCHANGED <<idVars, fltVars, hdlVars>>
    /\ UNCHANGED <<setVars, selfVars, mgrVars, engVars, callVars, envVars, histVars>>

\* A direct call of load(), save(), get() or update(d) by thread t.
ApiCall(t, alone) ==
    /\ \A u \in alone : kpc[u] = "idle"
    /\ kpc[t] = "idle"
    /\ Len(cfg_log) < MaxOps
    /\ \E op \in {"load", "save", "get", "update"} :
       \E q \in (IF op = "update" THEN {P_BOTH, P_RANGE} ELSE {<<>>}) :
        /\ kloc' = [kloc EXCEPT ![t] = Loc(op, q, FALSE,
                        IF op = "update" THEN JsonLoads(q) ELSE Json("none", EmptyDoc),
                        cfg_mem)]
        /\ KGoto(t, IF op = "load" THEN "load_exists" ELSE IF op = "save" THEN "sav_lock"
                    ELSE IF op = "get" THEN "get_lock" ELSE "upd_lock")
    /\ UNCHANGED <<cfg_schema, cfg_file, cfg_mem, cfg_lock, cfg_log>>
    /\ UNCHANGED <<idVars, fltVars, hdlVars>>
    /\ UNCHANGED <<setVars, selfVars, mgrVars, engVars, callVars, envVars, histVars>>

\* update line 95: with self._lock
UpdLock(t) ==
    /\ kpc[t] = "upd_lock"
    /\ cfg_lock = "free"
    /\ cfg_lock' = t
    /\ KGoto(t, "upd_assign")
    /\ UNCHANGED <<cfg_schema, cfg_file, cfg_mem, kloc, cfg_log>>
    /\ UNCHANGED <<idVars, fltVars, hdlVars>>
    /\ UNCHANGED <<setVars, selfVars, mgrVars, engVars, callVars, envVars, histVars>>

\* Mutant of UpdAssign: the payload is stored before it is validated.
UpdAssignUnchecked(t) ==
    /\ kpc[t] = "upd_assign"
    /\ UNCHANGED <<cfg_schema, cfg_file>>
    /\ cfg_mem' = Mem("model", kloc[t].data.doc)
    /\ IF ValidFor(cfg_schema, kloc[t].data)
       THEN /\ KGoto(t, "upd_unlock")
            /\ UNCHANGED <<cfg_lock, kloc, cfg_log>>
       ELSE /\ cfg_lock' = "free"
            /\ KRaise(t, "ValidationError")
    /\ UNCHANGED <<idVars, fltVars, hdlVars>>
    /\ UNCHANGED <<setVars, selfVars, mgrVars, engVars, callVars, envVars, histVars>>

\* update lines 96-97: self._configs = self.schema.model_validate(new_configs);
\* a ValidationError leaves the with block before the assignment
UpdAssign(t) ==
    /\ kpc[t] = "upd_assign"
    /\ UNCHANGED <<cfg_schema, cfg_file>>
    /\ IF ValidFor(cfg_schema, kloc[t].data)
       THEN /\ cfg_mem' = Mem("model", Validated(cfg_schema, kloc[t].data))
            /\ KGoto(t, "upd_unlock")
            /\ UNCHANGED <<cfg_lock, kloc, cfg_log>>
       ELSE /\ cfg_lock' = "free"
            /\ UNCHANGED cfg_mem
            /\ KRaise(t, "ValidationError")
    /\ UNCHANGED <<idVars, fltVars, hdlVars>>
    /\ UNCHANGED <<setVars, selfVars, mgrVars, engVars, callVars, envVars, histVars>>

\* Mutant of UpdUnlock: reconfigure saves whether or not persist was given.
UpdUnlockAlwaysSave(t) ==
    /\ kpc[t] = "upd_unlock"
    /\ UNCHANGED <<cfg_schema, cfg_file, cfg_mem>>
    /\ cfg_lock' = "free"
    /\ IF kloc[t].op = "reconfigure"
       THEN KGoto(t, "sav_lock") /\ UNCHANGED <<kloc, cfg_log>>
       ELSE KDone(t, "None")
    /\ UNCHANGED <<idVars, fltVars, hdlVars>>
    /\ UNCHANGED <<setVars, selfVars, mgrVars, engVars, callVars, envVars, histVars>>

\* update line 100 and the end of the with block; Service.reconfigure lines
\* 174-177: save() when persist was given, else the reply
UpdUnlock(t) ==
    /\ kpc[t] = "upd_unlock"
    /\ UNCHANGED <<cfg_schema, cfg_file, cfg_mem>>
    /\ cfg_lock' = "free"
    /\ IF kloc[t].op = "reconfigure" /\ kloc[t].persist
       THEN KGoto(t, "sav_lock") /\ UNCHANGED <<kloc, cfg_log>>
       ELSE KDone(t, IF kloc[t].op = "reconfigure" THEN "reconfigure: ok" ELSE "None")
    /\ UNCHANGED <<idVars, fltVars, hdlVars>>
    /\ UNCHANGED <<setVars, selfVars, mgrVars, engVars, callVars, envVars, histVars>>

\* save line 61: with self._lock
SavLock(t) ==
    /\ kpc[t] = "sav_lock"
    /\ cfg_lock = "free"
    /\ cfg_lock' = t
    /\ KGoto(t, "sav_check")
    /\ UNCHANGED <<cfg_schema, cfg_file, cfg_mem, kloc, cfg_log>>
    /\ UNCHANGED <<idVars, fltVars, hdlVars>>
    /\ UNCHANGED <<setVars, selfVars, mgrVars, engVars, callVars, envVars, histVars>>

\* save lines 62-63: if self._configs is None: return
SavCheck(t) ==
    /\ kpc[t] = "sav_check"
    /\ UNCHANGED <<cfg_schema, cfg_file, cfg_mem>>
    /\ IF cfg_mem.kind = "none"
       THEN cfg_lock' = "free" /\ AfterSave(t)
       ELSE KGoto(t, "sav_data") /\ UNCHANGED <<cfg_lock, kloc, cfg_log>>
    /\ UNCHANGED <<idVars, fltVars, hdlVars>>
    /\ UNCHANGED <<setVars, selfVars, mgrVars, engVars, callVars, envVars, histVars>>

\* save lines 66-80: the directory is made, data = self._configs.model_dump()
SavData(t) ==
    /\ kpc[t] = "sav_data"
    /\ kloc' = [kloc EXCEPT ![t].dump = cfg_mem.doc]
    /\ KGoto(t, "sav_open")
    /\ UNCHANGED <<cfg_schema, cfg_file, cfg_mem, cfg_lock, cfg_log>>
    /\ UNCHANGED <<idVars, fltVars, hdlVars>>
    /\ UNCHANGED <<setVars, selfVars, mgrVars, engVars, callVars, envVars, histVars>>

\* save line 83: open(self.config_file, 'w') truncates the file, or raises
\* PermissionError (lines 86-88) and leaves it alone
SavOpen(t) ==
    /\ kpc[t] = "sav_open"
    /\ UNCHANGED <<cfg_schema, cfg_mem>>
    /\ \/ /\ cfg_file' = FileEmpty
          /\ KGoto(t, "sav_dump")
          /\ UNCHANGED <<cfg_lock, kloc, cfg_log>>
       \/ /\ cfg_lock' = "free"
          /\ UNCHANGED cfg_file
          /\ KRaise(t, "PermissionError")
    /\ UNCHANGED <<idVars, fltVars, hdlVars>>
    /\ UNCHANGED <<setVars, selfVars, mgrVars, engVars, callVars, envVars, histVars>>

\* save lines 84-85: yaml.dump(data, f); the file is closed and the lock
\* released
SavDump(t) ==
    /\ kpc[t] = "sav_dump"
    /\ UNCHANGED <<cfg_schema, cfg_mem>>
    /\ cfg_file' = File("doc", kloc[t].dump)
    /\ cfg_lock' = "free"
    /\ AfterSave(t)
    /\ UNCHANGED <<idVars, fltVars, hdlVars>>
    /\ UNCHANGED <<setVars, selfVars, mgrVars, engVars, callVars, envVars, histVars>>

\* load line 31: if not os.path.exists(self.config_file).  No lock is taken.
LoadExists(t) ==
    /\ kpc[t] = "load_exists"
    /\ KGoto(t, IF cfg_file.kind = "absent" THEN "load_default" ELSE "load_read")
    /\ UNCHANGED <<cfg_schema, cfg_file, cfg_mem, cfg_lock, kloc, cfg_log>>
    /\ UNCHANGED <<idVars, fltVars, hdlVars>>
    /\ UNCHANGED <<setVars, selfVars, mgrVars, engVars, callVars, envVars, histVars>>

\* load lines 34-37: self._configs = self.schema(); self.save()
LoadDefault(t) ==
    /\ kpc[t] = "load_default"
    /\ cfg_mem' = Mem("model", SchemaDefault(cfg_schema))
    /\ KGoto(t, "sav_lock")
    /\ UNCHANGED <<cfg_schema, cfg_file, cfg_lock, kloc, cfg_log>>
    /\ UNCHANGED <<idVars, fltVars, hdlVars>>
    /\ UNCHANGED <<setVars, selfVars, mgrVars, engVars, callVars, envVars, histVars>>

\* load lines 43-44: data = yaml.safe_load(f); an empty file gives None
LoadRead(t) ==
    /\ kpc[t] = "load_read"
    /\ kloc' = [kloc EXCEPT ![t].data = IF cfg_file.kind = "doc"
                                         THEN Json("dict", cfg_file.doc)
                                         ELSE Json("none", EmptyDoc)]
    /\ KGoto(t, "load_assign")
    /\ UNCHANGED <<cfg_schema, cfg_file, cfg_mem, cfg_lock, cfg_log>>
    /\ UNCHANGED <<idVars, fltVars, hdlVars>>
    /\ UNCHANGED <<setVars, selfVars, mgrVars, engVars, callVars, envVars, histVars>>

\* Mutant of LoadAssign: what was read from the file is not taken over.
LoadAssignSkipping(t) ==
    /\ kpc[t] = "load_assign"
    /\ UNCHANGED <<cfg_schema, cfg_file, cfg_lock>>
    /\ UNCHANGED cfg_mem
    /\ KDone(t, "None")
    /\ UNCHANGED <<idVars, fltVars, hdlVars>>
    /\ UNCHANGED <<setVars, selfVars, mgrVars, engVars, callVars, envVars, histVars>>

\* load lines 47-57: if self.schema and data: self._configs =
\* self.schema.model_validate(data); None and the empty dict are falsy;
\* a ValidationError is logged and raised again
LoadAssign(t) ==
    /\ kpc[t] = "load_assign"
    /\ UNCHANGED <<cfg_schema, cfg_file, cfg_lock>>
    /\ LET data == kloc[t].data
           truthy == data.kind = "dict" /\ data.doc # EmptyDoc IN
       IF truthy /\ ~ValidFor(cfg_schema, data)
       THEN UNCHANGED cfg_mem /\ KRaise(t, "ValidationError")
       ELSE /\ cfg_mem' = IF truthy THEN Mem("model", Validated(cfg_schema, data))
                           ELSE cfg_mem
            /\ KDone(t, "None")
    /\ UNCHANGED <<idVars, fltVars, hdlVars>>
    /\ UNCHANGED <<setVars, selfVars, mgrVars, engVars, callVars, envVars, histVars>>

\* get line 104: with self._lock
GetLock(t) ==
    /\ kpc[t] = "get_lock"
    /\ cfg_lock = "free"
    /\ cfg_lock' = t
    /\ KGoto(t, "get_read")
    /\ UNCHANGED <<cfg_schema, cfg_file, cfg_mem, kloc, cfg_log>>
    /\ UNCHANGED <<idVars, fltVars, hdlVars>>
    /\ UNCHANGED <<setVars, selfVars, mgrVars, engVars, callVars, envVars, histVars>>

\* Mutant of GetRead: reading the parameters resets them.
GetReadClearing(t) ==
    /\ kpc[t] = "get_read"
    /\ UNCHANGED <<cfg_schema, cfg_file>>
    /\ cfg_mem' = MemNone
    /\ cfg_lock' = "free"
    /\ KDone(t, "value")
    /\ UNCHANGED <<idVars, fltVars, hdlVars>>
    /\ UNCHANGED <<setVars, selfVars, mgrVars, engVars, callVars, envVars, histVars>>

\* get line 105: return self._configs (recorded as mem of the log entry)
GetRead(t) ==
    /\ kpc[t] = "get_read"
    /\ UNCHANGED <<cfg_schema, cfg_file, cfg_mem>>
    /\ cfg_lock' = "free"
    /\ KDone(t, "value")
    /\ UNCHANGED <<idVars, fltVars, hdlVars>>
    /\ UNCHANGED <<setVars, selfVars, mgrVars, engVars, callVars, envVars, histVars>>

\* The process is restarted: Service.__init__ lines 53-57 build a new
\* ConfigManager on the same file with the same schema; __init__ lines 19-26
\* set _configs = None, make a new lock and call load().
Restart ==
    /\ \A u \in Threads : kpc[u] \in {"idle", "down"}
    /\ Len(cfg_log) < MaxOps
    /\ cfg_mem' = MemNone
    /\ cfg_lock' = "free"
    /\ kpc' = [u \in Threads |-> IF u = "main" THEN "load_exists" ELSE "idle"]
    /\ kloc' = [kloc EXCEPT !["main"] = Loc("init", <<>>, FALSE, Json("none", EmptyDoc), MemNone)]
    /\ UNCHANGED <<cfg_schema, cfg_file, cfg_log>>
    /\ UNCHANGED <<idVars, fltVars, hdlVars>>
    /\ UNCHANGED <<setVars, selfVars, mgrVars, engVars, callVars, envVars, histVars>>

\* The files the first ConfigManager may find: none, the parameters of the
\* tests, an empty mapping, a threshold out of range.
InitFiles == {FileAbsent, File("doc", Doc("0.7", "false", Absent)),
              File("doc", EmptyDoc), File("doc", Doc("2.0", Absent, Absent))}

\* Service.__init__ is about to build its ConfigManager (thread "main").
ConfigInit ==
    /\ InitCore /\ IdIdle /\ FltIdle /\ HdlIdle
    /\ kind = "service" /\ ctor = "cfg" /\ engine_autostart = FALSE /\ out_addr = <<>>
    /\ cfg_schema \in Schemas
    /\ cfg_file \in InitFiles
    /\ cfg_mem = MemNone
    /\ cfg_lock = "free"
    /\ kpc = [u \in Threads |-> IF u = "main" THEN "load_exists" ELSE "idle"]
    /\ kloc = [u \in Threads |->
                IF u = "main" THEN Loc("init", <<>>, FALSE, Json("none", EmptyDoc), MemNone)
                ELSE NoLoc]
    /\ cfg_log = <<>>

ConfigSteps ==
    \E t \in Threads :
        \/ UpdLock(t) \/ UpdAssign(t) \/ UpdUnlock(t)
        \/ SavLock(t) \/ SavCheck(t) \/ SavData(t) \/ SavOpen(t) \/ SavDump(t)
        \/ LoadExists(t) \/ LoadDefault(t) \/ LoadRead(t) \/ LoadAssign(t)
        \/ GetLock(t) \/ GetRead(t)

\* The service as it uses its ConfigManager: the Manager worker serves
\* reconfigure and status one after the other; the process may be restarted.
ReconfNext ==
    \/ RcParse("mgr", Threads)
    \/ ApiCall("mgr", Threads)
    \/ Restart
    \/ ConfigSteps
ReconfSpec == ConfigInit /\ [][ReconfNext]_vars

\* ConfigManager called from two threads at once.
SharedNext ==
    \/ \E t \in Threads : ApiCall(t, {t})
    \/ ConfigSteps
SharedSpec == ConfigInit /\ [][SharedNext]_vars

----------------------------------------------------------------------------
\* Properties of reconfigure and ConfigManager

\* Entry i of the log is a reconfigure whose payload decoded but does not
\* pass the schema.
RejectedBySchema(i) ==
    /\ cfg_log[i].op = "reconfigure"
    /\ cfg_log[i].data.kind \in {"dict", "scalar"}
    /\ ~ValidFor(cfg_schema, cfg_log[i].data)

\* C21: update with a payload that fails validation raises and leaves
\* _configs (and the file) as they were; the reconfigure command replies
\* "reconfigure: error - ..." and a get() that follows returns the parameters
\* held before the command.
C21_InvalidUpdateKeepsParams ==
    /\ [][\A t \in Threads :
            (kpc[t] = "upd_assign" /\ kpc'[t] # kpc[t] /\ ~ValidFor(cfg_schema, kloc[t].data))
                => (cfg_mem' = cfg_mem /\ cfg_file' = cfg_file /\ kpc'[t] = "idle")]_vars
    /\ [](\A i \in DOMAIN cfg_log :
            RejectedBySchema(i) =>
                /\ cfg_log[i].outcome = "reconfigure: error - ValidationError"
                /\ cfg_log[i].mem = cfg_log[i].mem0
                /\ (i < Len(cfg_log) /\ cfg_log[i + 1].op = "get")
                        => cfg_log[i + 1].mem = cfg_log[i].mem0)

\* C21 witness: with the parameters loaded from the file (threshold 0.7), a
\* reconfigure with threshold 2.0 was rejected and the get() after it returned
\* the loaded parameters.
C21_Witness ==
    /\ Len(cfg_log) = 3 /\ cfg_schema = "mock"
    /\ cfg_log[1].op = "init" /\ cfg_log[1].mem = Mem("model", Doc("0.7", "false", Absent))
    /\ cfg_log[2].cmd = RECONFIGURE \o <<" ">> \o P_RANGE
    /\ cfg_log[2].outcome = "reconfigure: error - ValidationError"
    /\ cfg_log[3].op = "get" /\ cfg_log[3].mem = cfg_log[1].mem

\* Entry i of the log is a reconfigure whose payload update() accepted.
Accepted(i) ==
    /\ cfg_log[i].op = "reconfigure"
    /\ ValidFor(cfg_schema, cfg_log[i].data)

\* C22: reconfigure enters save() only after update() has returned and only
\* when persist was given.  A reconfigure without persist leaves the file as
\* it was; after an accepted payload _configs is that payload as the schema
\* validated it (the payload itself when it names exactly the schema's
\* fields); after a successful reconfigure persist the file holds _configs.
C22_UpdateThenSaveOnPersist ==
    /\ [][\A t \in Threads :
            (kloc[t].op = "reconfigure" /\ kpc[t] # "sav_lock" /\ kpc'[t] = "sav_lock")
                => (kpc[t] = "upd_unlock" /\ kloc[t].persist)]_vars
    /\ [][(\E t \in Threads : kloc[t].op = "reconfigure" /\ ~kloc[t].persist)
                => cfg_file' = cfg_file]_vars
    /\ [](\A i \in DOMAIN cfg_log :
            /\ (i > 1 /\ cfg_log[i].op = "reconfigure" /\ ~cfg_log[i].persist)
                    => cfg_log[i].file = cfg_log[i - 1].file
            /\ Accepted(i) =>
                    /\ cfg_log[i].mem = Mem("model", Validated(cfg_schema, cfg_log[i].data))
                    /\ (cfg_schema = "mock" /\ cfg_log[i].data.doc.threshold # Absent
                            /\ cfg_log[i].data.doc.enabled # Absent
                            /\ cfg_log[i].data.doc.other = Absent)
                          => cfg_log[i].mem.doc = cfg_log[i].data.doc
            /\ (cfg_log[i].op = "reconfigure" /\ cfg_log[i].persist
                    /\ cfg_log[i].outcome = "reconfigure: ok")
                    => cfg_log[i].file = File("doc", cfg_log[i].mem.doc))

\* C22 witness: a reconfigure without persist changed _configs and left the
\* file with the parameters it had; the reconfigure persist after it wrote
\* the new parameters to the file.
C22_Witness ==
    /\ Len(cfg_log) = 3 /\ cfg_schema = "mock"
    /\ cfg_log[2].cmd = RECONFIGURE \o <<" ">> \o P_BOTH
    /\ cfg_log[2].outcome = "reconfigure: ok"
    /\ cfg_log[2].mem = Mem("model", Doc("0.8", "false", Absent))
    /\ cfg_log[2].file = File("doc", Doc("0.7", "false", Absent))
    /\ cfg_log[3].cmd = RECONFIGURE \o <<" ">> \o PERSIST \o <<" ">> \o P_LOW
    /\ cfg_log[3].outcome = "reconfigure: ok"
    /\ cfg_log[3].file = File("doc", Doc("0.7", "true", Absent))

\* The parameters as the status report shows them (_create_status_report):
\* the dump of _configs, or the empty mapping when get() returns None.
ParamsOf(mem) == IF mem.kind = "none" THEN EmptyDoc ELSE mem.doc

\* Entry i of the log is a ConfigManager construction that succeeded.
Constructed(i) == cfg_log[i].op = "init" /\ cfg_log[i].outcome = "None"

\* C23: a restart right after a successful reconfigure persist constructs a
\* ConfigManager whose parameters are those the reconfigure left; a restart
\* after a reconfigure without persist brings back the parameters of the
\* construction before it.
C23_PersistRoundTrip ==
    \A i \in DOMAIN cfg_log :
        (i < Len(cfg_log) /\ cfg_log[i].op = "reconfigure" /\ cfg_log[i + 1].op = "init") =>
            /\ (cfg_log[i].persist /\ cfg_log[i].outcome = "reconfigure: ok") =>
                    /\ Constructed(i + 1)
                    /\ ParamsOf(cfg_log[i + 1].mem) = ParamsOf(cfg_log[i].mem)
            /\ (~cfg_log[i].persist /\ i > 1 /\ Constructed(i - 1)) =>
                    /\ Constructed(i + 1)
                    /\ ParamsOf(cfg_log[i + 1].mem) = ParamsOf(cfg_log[i - 1].mem)

\* C23 witness: the file held threshold 0.7; reconfigure persist set 0.8 and
\* enabled false; the ConfigManager built after the restart has 0.8 and false.
C23_Witness ==
    /\ Len(cfg_log) = 3 /\ cfg_schema = "mock"
    /\ cfg_log[1].mem = Mem("model", Doc("0.7", "false", Absent))
    /\ cfg_log[2].persist /\ cfg_log[2].outcome = "reconfigure: ok"
    /\ cfg_log[3].op = "init"
    /\ cfg_log[3].mem = Mem("model", Doc("0.8", "false", Absent))
    /\ cfg_log[3].mem = cfg_log[2].mem

\* Thread t is executing the body of a ConfigManager method: it holds the
\* lock (save, update, get), or it is past the first statement of load.
InBody(t) == cfg_lock = t \/ kpc[t] \in {"load_default", "load_read", "load_assign"}

\* C24: load, save, update and get of different threads never overlap, and a
\* load never reads the file while another thread is in the middle of
\* writing it.
C24_OneLockForAll ==
    \A t \in Threads : \A u \in Threads \ {t} :
        /\ ~(InBody(t) /\ InBody(u))
        /\ (kpc[t] = "load_read" /\ kpc[u] = "sav_dump") => cfg_file # FileEmpty

----------------------------------------------------------------------------
\* A Service used as a context manager while `start` and `stop` commands
\* arrive on the command channel.
ScopeNext ==
    \/ Construct \/ Frames \/ Scope
    \/ MgrTop \/ MgrRecvTimeout \/ MgrRecvClosed \/ MgrRecvFrom({START, STOP})
    \/ MgrDedup \/ MgrHandle \/ MgrCallReturn \/ MgrSend
    \/ WorkerControl

ScopeSpec == Init /\ [][ScopeNext]_vars

\* The step in which run() returns to the body.
RunReturns ==
    /\ mainop \in {"run_recheck", "run_stop"}
    /\ mainop' = "exit_check"
    /\ calllog'[Len(calllog')].res = Ret("None")

\* C25: run() starts the engine when it is not running, returns only after
\* the latch was set, and when it returns the engine is not running
\* (self._running is False).
C25_RunReturnsWithEngineStopped ==
    /\ [][(mainop = "body" /\ mainop' = "run_start") => ~running]_vars
    /\ [][(mainop = "run_wait" /\ mainop' # "run_wait") => stop_event]_vars
    /\ [][RunReturns => ~running']_vars

\* The last entry of calllog.
LastCall == calllog[Len(calllog)]

\* __exit__ has returned or raised.
ScopeLeft == mainop = "left"

\* The exception the body raised, if any, leaves the with statement: __exit__
\* returned False.
Propagated == LastCall = [op |-> "__exit__", res |-> Ret("False")]

\* C26: __exit__ calls stop() exactly when the latch is unset, then always
\* _close_manager(), whether the body returned or raised and whether stop()
\* succeeded; it returns False, so an exception of the body is propagated.
C26_ExitStopsThenCloses ==
    /\ [][(mainop = "exit_check" /\ mainop' # "exit_check")
            => /\ ~stop_event => (mainop' = "exit_stop" /\ cpc'["main"] = "stop_check")
               /\ stop_event => (mainop' = "exit_close" /\ cpc'["main"] = "none")]_vars
    /\ [][(mainop = "exit_stop" /\ mainop' # "exit_stop") => mainop' = "exit_close"]_vars
    /\ [][(mainop = "exit_close" /\ mainop' # "exit_close")
            => (mainop' = "cm_close" /\ closed_mgr')]_vars
    /\ [](ScopeLeft => (closed_mgr /\ rep_sock = "closed" /\ Propagated))

\* C26 witness: the body raised, the stop() called by __exit__ failed, the
\* command socket was closed all the same and __exit__ returned False.
C26_Witness ==
    /\ ScopeLeft /\ Propagated
    /\ Len(calllog) = 4
    /\ calllog[2] = [op |-> "body", res |-> BodyError]
    /\ calllog[3].op = "stop"
    /\ calllog[3].res = RetErr("error: failed to stop engine - ", MsgCloseFailed)
    /\ closed_mgr /\ rep_sock = "closed"

\* C27: once the scope has been left, the command socket, the engine input
\* socket and the output sockets are closed and neither worker thread is
\* alive: both have been joined.
C27_ScopeExitReleasesAll ==
    ScopeLeft =>
        /\ rep_sock = "closed"
        /\ pair_sock = "closed" /\ out_closed
        /\ mgr_thread # "alive"
        /\ eng_thread # "alive"

----------------------------------------------------------------------------
\* ServiceSettings._ensure_component_id (settings.py): the component id of a
\* settings object, computed by the model validator from the fields given.

\* Optional[str] fields: None, or a string.
None == [set |-> FALSE, val |-> ""]
Some(v) == [set |-> TRUE, val |-> v]
\* truth value of an Optional[str] in `if x:`; None and "" are falsy
Truthy(o) == o.set /\ o.val # ""
\* x or ''
OrEmpty(o) == IF Truthy(o) THEN o.val ELSE ""

\* uuid5(NAMESPACE_URL, s).hex: a function of s alone, taken as injective
Uuid5(s) == [src |-> "uuid5", val |-> s]
\* an id given by the user, kept as it is
Verbatim(v) == [src |-> "given", val |-> v]

\* f"detectmate/{component_type}/{component_name}"
NameString(type, name) == "detectmate/" \o type \o "/" \o name
\* f"detectmate/{component_type}|{manager_addr or ''}|{engine_addr or ''}"
AddrString(type, m, e) == "detectmate/" \o type \o "|" \o OrEmpty(m) \o "|" \o OrEmpty(e)

\* Mutant of EnsureComponentId: the addresses are hashed even when a name is
\* set.
EnsureComponentIdByAddress(o) ==
    IF Truthy(o.id_in) THEN Verbatim(o.id_in.val)
    ELSE Uuid5(AddrString(o.component_type, o.manager_addr, o.engine_addr))

\* _ensure_component_id lines 76-92: the value of component_id after validation
EnsureComponentId(o) ==
    IF Truthy(o.id_in) THEN Verbatim(o.id_in.val)
    ELSE IF Truthy(o.component_name)
         THEN Uuid5(NameString(o.component_type, o.component_name.val))
    ELSE Uuid5(AddrString(o.component_type, o.manager_addr, o.engine_addr))

\* Values of the fields.
TypeValues == {"core", "core/x"}
NameValues == {None, Some(""), Some("n"), Some("x/n")}
IdValues   == {None, Some(""), Some("id-1")}
ManagerAddrValues == {None, Some(""), Some("ipc:///m"), Some("ipc:///m|ipc:///e")}
EngineAddrValues  == {None, Some("ipc:///e"), Some("ipc:///e|ipc:///e")}

\* ServiceSettings(component_type=..., component_name=..., component_id=...,
\* manager_addr=..., engine_addr=...): the object after the model validator ran
Validate ==
    /\ Len(sset) < 2
    /\ \E type \in TypeValues, name \in NameValues, id \in IdValues,
          m \in ManagerAddrValues, e \in EngineAddrValues :
        LET o == [component_type |-> type, component_name |-> name, id_in |-> id,
                  manager_addr |-> m, engine_addr |-> e]
        IN sset' = Append(sset, [given |-> o, component_id |-> EnsureComponentId(o)])
    /\ UNCHANGED <<cfgVars, fltVars, hdlVars>>
    /\ UNCHANGED <<setVars, selfVars, mgrVars, engVars, callVars, envVars, histVars>>

IdInit ==
    /\ InitCommon
    /\ engine_autostart = TRUE
    /\ kind = "service"
    /\ ctor = "mgr_init"
    /\ out_addr = <<>>

IdNext == Validate

\* Two settings objects are built, each from any combination of the fields.
IdSpec == IdInit /\ [][IdNext]_vars

\* The derivation inputs of a settings object without an explicit id: type
\* and name when a name is set, type and the two addresses (None read as the
\* empty string) otherwise.
Inputs(o) ==
    IF Truthy(o.component_name)
    THEN [rule |-> "name", type |-> o.component_type, name |-> o.component_name.val,
          m |-> "", e |-> ""]
    ELSE [rule |-> "addr", type |-> o.component_type, name |-> "",
          m |-> OrEmpty(o.manager_addr), e |-> OrEmpty(o.engine_addr)]

\* C28: two settings objects without an explicit id have the same
\* component_id if and only if their derivation inputs are equal.
C28_IdEqualIffInputsEqual ==
    \A i \in DOMAIN sset : \A j \in DOMAIN sset :
        (~Truthy(sset[i].given.id_in) /\ ~Truthy(sset[j].given.id_in)) =>
            (sset[i].component_id = sset[j].component_id
                <=> Inputs(sset[i].given) = Inputs(sset[j].given))

\* The rule that applies to a settings object: the first of explicit id,
\* name, addresses.
RuleOf(o) ==
    IF Truthy(o.id_in) THEN "id" ELSE IF Truthy(o.component_name) THEN "name" ELSE "addr"

\* C29: a given id is kept verbatim; otherwise with a name the id is a
\* function of type and name alone, otherwise of type and the two addresses;
\* component_id is never left empty.
C29_FirstApplicableRule ==
    \A i \in DOMAIN sset :
        LET x == sset[i].given IN
        /\ sset[i].component_id.val # ""
        /\ RuleOf(x) = "id" => sset[i].component_id = Verbatim(x.id_in.val)
        /\ RuleOf(x) # "id" => sset[i].component_id.src = "uuid5"
        /\ \A j \in DOMAIN sset :
            LET y == sset[j].given IN
            /\ (RuleOf(x) = "name" /\ RuleOf(y) = "name"
                    /\ x.component_type = y.component_type
                    /\ x.component_name = y.component_name)
                => sset[i].component_id = sset[j].component_id
            /\ (RuleOf(x) = "addr" /\ RuleOf(y) = "addr"
                    /\ x.component_type = y.component_type
                    /\ OrEmpty(x.manager_addr) = OrEmpty(y.manager_addr)
                    /\ OrEmpty(x.engine_addr) = OrEmpty(y.engine_addr))
                => sset[i].component_id = sset[j].component_id

\* C29 witness: two objects of type "core" named "n" with different manager
\* addresses, one of them given the empty string as id: both get the id
\* derived from type and name.
C29_Witness ==
    /\ Len(sset) = 2
    /\ RuleOf(sset[1].given) = "name" /\ RuleOf(sset[2].given) = "name"
    /\ sset[1].given.component_name = Some("n") /\ sset[2].given.component_name = Some("n")
    /\ sset[1].given.component_type = sset[2].given.component_type
    /\ sset[1].given.manager_addr = None
    /\ sset[2].given.manager_addr = Some("ipc:///m")
    /\ sset[1].given.id_in = None /\ sset[2].given.id_in = Some("")
    /\ sset[1].component_id = sset[2].component_id
    /\ sset[1].component_id = Uuid5("detectmate/core/n")

----------------------------------------------------------------------------
\* Engine construction when setting up an output socket can fail.

\* What the loop of _setup_output_sockets (lines 91-107) leaves in
\* self._out_sockets for the addresses addrs[i..]: the socket of an address
\* whose setup raised (its index is in fails) is not appended, the loop goes on.
RECURSIVE SetupSocketsStopping(_, _, _)
SetupSocketsStopping(addrs, fails, i) ==
    IF i > Len(addrs) \/ i \in fails THEN <<>>
    ELSE <<addrs[i]>> \o SetupSocketsStopping(addrs, fails, i + 1)

RECURSIVE SetupSockets(_, _, _)
SetupSockets(addrs, fails, i) ==
    IF i > Len(addrs) THEN <<>>
    ELSE (IF i \in fails THEN <<>> ELSE <<addrs[i]>>) \o SetupSockets(addrs, fails, i + 1)

\* the record of one pass of the loop over addrs
DialLog(addrs, fails) ==
    [i \in 1..Len(addrs) |-> [step |-> "dial", addr |-> addrs[i], ok |-> i \notin fails]]

\* Engine.__init__ lines 57-74: the input socket is bound; _setup_output_sockets
\* runs, and setting up any address can fail (logged, skipped).  The setup step
\* as a whole can also raise when it reaches address r (r = 0: it does not):
\* then the input socket is closed, a failure of that close is logged, and the
\* exception leaves __init__.
EngineInitSocketsFailing ==
    /\ ctor = "eng_socks"
    /\ \E r \in 0..Len(out_addr) :
       LET tried == IF r = 0 THEN out_addr ELSE SubSeq(out_addr, 1, r - 1) IN
       \E fails \in SUBSET (1..Len(tried)) :
        /\ out_sockets' = SetupSockets(tried, fails, 1)
        /\ IF r = 0
           THEN /\ pair_sock' = "open"
                /\ setuplog' = setuplog \o DialLog(tried, fails)
                /\ ctor' = "eng_autostart"
           ELSE \E closed \in BOOLEAN :
                /\ pair_sock' = IF closed THEN "closed" ELSE "open"
                /\ setuplog' = setuplog \o DialLog(tried, fails) \o
                        <<[step |-> "raise", addr |-> out_addr[r], ok |-> FALSE],
                          [step |-> "close_input", addr |-> 0, ok |-> closed]>>
                /\ ctor' = "failed"
    /\ UNCHANGED <<stop_event, has_handlers, handlers, has_running, running, thread_attr,
                   has_cfg, rep_sock, out_closed>>
    /\ UNCHANGED <<cfgVars, idVars, faultlog, hdlVars>>
    /\ UNCHANGED <<setVars, mgrVars, engVars, callVars, envVars, histVars>>

SetupNext ==
    \/ EngineInitEvent \/ EngineInitRunning \/ EngineInitThread \/ EngineInitSocketsFailing
    \/ EngineInitAutostart \/ EngineInitAutostartDone
    \/ StartCheck("main") \/ StartSet("main") \/ StartThread("main")
    \/ EStopCheck("main") \/ EStopClear("main") \/ EStopLatch("main")
    \/ EStopCloseInput("main") \/ EStopCloseOutputs("main") \/ EStopJoin("main")
    \/ MainStart \/ MainStop \/ MainReturn
    \/ EngineWorker
    \/ ClientSend
    \/ \E a \in Addrs : PeerListen(a) \/ BreakOutput(a)

\* A bare Engine whose output sockets can fail to initialise.
SetupSpec == EngineInit /\ [][SetupNext]_vars

\* C31: with a non-empty out_addr no result is ever sent on the engine
\* socket, whatever happened to the output sockets at construction; a reply
\* on the engine socket is sent only from an engine without out_addr.
C31_NoReplyWhenOutputsConfigured ==
    /\ out_addr # <<>> => pairout = <<>>
    /\ [][pairout' # pairout => out_addr = <<>>]_vars

\* The output setup of Engine.__init__ is over.
SetupOver == ctor \notin {"eng_event", "eng_running", "eng_thread", "eng_socks"}

\* The entries of setuplog for the addresses, and the addresses among them
\* whose socket was set up.
Dials == SelectSeq(setuplog, LAMBDA e : e.step = "dial")
DialledOk == SelectSeq(setuplog, LAMBDA e : e.step = "dial" /\ e.ok)
SetupRaised == \E i \in DOMAIN setuplog : setuplog[i].step = "raise"

\* C32: every address of out_addr is attempted in order, an address whose
\* setup fails is skipped and the later ones are still set up, so that
\* _out_sockets holds, in order, the addresses that were set up; when the
\* setup step raises, the input socket is closed (a failure of that close is
\* only logged) and then construction fails.
C32_OutputSetupSkipsFailures ==
    SetupOver =>
        /\ out_sockets = [i \in 1..Len(DialledOk) |-> DialledOk[i].addr]
        /\ ~SetupRaised => [i \in 1..Len(Dials) |-> Dials[i].addr] = out_addr
        /\ SetupRaised =>
                /\ ctor = "failed" /\ epc = "new"
                /\ setuplog[Len(setuplog)].step = "close_input"
                /\ setuplog[Len(setuplog) - 1].step = "raise"
                /\ setuplog[Len(setuplog)].ok => pair_sock = "closed"

\* C32 witness: the first of two addresses failed, the second was set up all
\* the same and has received a result.
C32_Witness ==
    /\ SetupOver /\ ~SetupRaised
    /\ out_addr = <<1, 2>>
    /\ Len(setuplog) = 2 /\ ~setuplog[1].ok /\ setuplog[2].ok
    /\ out_sockets = <<2>>
    /\ delivered[2] # <<>>

----------------------------------------------------------------------------
\* The first whitespace-separated token of a request, lower-cased.
FirstToken(cmd) == Lower(WordHead(cmd))

\* C33: a request received by the constructed service is dispatched on its
\* first whitespace-separated token, whichever whitespace character ends it:
\* when that token is ping the reply is "pong", and no request whose first
\* token is a command is answered as unknown.
C33_VerbIsFirstToken ==
    \A i \in DOMAIN reqlog :
        (reqlog[i].built /\ reqlog[i].call # "") =>
            /\ FirstToken(reqlog[i].cmd) = PING => reqlog[i].call = "ping"
            /\ FirstToken(reqlog[i].cmd) \in {START, STOP, STATUS, RECONFIGURE}
                    => reqlog[i].call \in {"cmd", "noarg"}

----------------------------------------------------------------------------
\* reconfigure on a service with and without a ConfigManager.

\* Service.__init__ lines 50-51 with settings.config_file unset:
\* self.config_manager = None, no ConfigManager is built.
NoConfigInit ==
    /\ InitCore /\ IdIdle /\ FltIdle /\ HdlIdle
    /\ kind = "service" /\ ctor = "done" /\ engine_autostart = FALSE /\ out_addr = <<>>
    /\ cfg_schema = "base" /\ cfg_file = FileAbsent /\ cfg_mem = MemNone
    /\ cfg_lock = "free"
    /\ kpc = [u \in Threads |-> "nocfg"]
    /\ kloc = [u \in Threads |-> NoLoc]
    /\ cfg_log = <<>>

\* Service.reconfigure lines 145-146: if not self.config_manager: return
\* "reconfigure: no config manager configured"
RcNoManager(t) ==
    /\ kpc[t] = "nocfg"
    /\ Len(cfg_log) < MaxOps
    /\ \E cmd \in RcCommands :
        cfg_log' = Append(cfg_log,
            [op |-> "reconfigure", by |-> t, cmd |-> cmd, persist |-> FALSE,
             data |-> Json("none", EmptyDoc), mem0 |-> cfg_mem,
             outcome |-> "reconfigure: no config manager configured",
             mem |-> cfg_mem, file |-> cfg_file])
    /\ UNCHANGED <<cfg_schema, cfg_file, cfg_mem, cfg_lock, kpc, kloc>>
    /\ UNCHANGED <<idVars, fltVars, hdlVars>>
    /\ UNCHANGED <<setVars, selfVars, mgrVars, engVars, callVars, envVars, histVars>>

RcNext == ReconfNext \/ RcNoManager("mgr")
RcSpec == (ConfigInit \/ NoConfigInit) /\ [][RcNext]_vars

\* The text after the verb and after the keyword persist, in any case, if
\* it follows the verb.
AfterWord(s) == LStrip(WordRest(LStrip(s)))
PayloadText(cmd) ==
    IF Lower(WordHead(AfterWord(cmd))) = PERSIST THEN AfterWord(AfterWord(cmd))
    ELSE AfterWord(cmd)

\* A reconfigure reply is appended to the log in this step.
Replied == Len(cfg_log') = Len(cfg_log) + 1 /\ cfg_log'[Len(cfg_log')].op = "reconfigure"
EarlyReplies == {"reconfigure: no config manager configured",
                 "reconfigure: no-op (no payload)", "reconfigure: invalid JSON"}

\* C34: the reply of reconfigure is that of the first case that applies: no
\* ConfigManager; no payload after the optional persist keyword; payload not
\* JSON; update or save raised; ok.  The first three replies leave _configs
\* and the file as they were.
C34_ReconfigureReplyOrder ==
    /\ [](\A i \in DOMAIN cfg_log :
            LET e == cfg_log[i]
                d == JsonLoads(PayloadText(e.cmd)) IN
            e.op = "reconfigure" =>
                IF kpc["mgr"] = "nocfg"
                THEN e.outcome = "reconfigure: no config manager configured"
                ELSE IF PayloadText(e.cmd) = <<>>
                THEN e.outcome = "reconfigure: no-op (no payload)"
                ELSE IF d = JsonError THEN e.outcome = "reconfigure: invalid JSON"
                ELSE IF ~ValidFor(cfg_schema, d)
                THEN e.outcome = "reconfigure: error - ValidationError"
                ELSE IF Lower(WordHead(AfterWord(e.cmd))) = PERSIST
                THEN /\ e.outcome \in {"reconfigure: ok", "reconfigure: error - PermissionError"}
                     /\ e.outcome = "reconfigure: ok" => e.file = File("doc", e.mem.doc)
                ELSE e.outcome = "reconfigure: ok")
    /\ [][(Replied /\ cfg_log'[Len(cfg_log')].outcome \in EarlyReplies)
            => (cfg_mem' = cfg_mem /\ cfg_file' = cfg_file)]_vars

\* C34 witness: a persist whose save failed was answered with the error, and
\* the next one, with the keyword spelt Persist, with ok.
C34_Witness ==
    /\ Len(cfg_log) = 3 /\ cfg_log[1].op = "init"
    /\ cfg_log[2].persist
    /\ cfg_log[2].outcome = "reconfigure: error - PermissionError"
    /\ cfg_log[3].cmd = RECONFIGURE \o <<" ","P","e","r","s","i","s","t"," "," ">> \o P_BOTH
    /\ cfg_log[3].outcome = "reconfigure: ok"

\* C38: a reconfigure that is not answered "reconfigure: ok" leaves _configs
\* as it was when the command arrived, also when the payload was accepted
\* and writing the file failed.
C38_FailedReconfigureKeepsParams ==
    \A i \in DOMAIN cfg_log :
        (cfg_log[i].op = "reconfigure" /\ cfg_log[i].outcome # "reconfigure: ok")
            => ParamsOf(cfg_log[i].mem) = ParamsOf(cfg_log[i].mem0)

----------------------------------------------------------------------------
\* No thread is inside start() or stop().
NoCallInProgress == \A t \in Threads : cpc[t] \in {"none", "done"}

\* C35: on the constructed service, whenever no start() or stop() is in
\* progress, self._running is true only while the engine worker is alive.
C35_RunningMeansWorkerAlive ==
    (ctor = "done" /\ NoCallInProgress /\ has_running /\ running) => eng_thread = "alive"

\* Replies that tell of an object that is not fully constructed.
UnbuiltReplies == {Reply2("error: ", MsgInternal), Reply2("error: ", MsgNoRunning),
                   Reply2("error: ", MsgNoPairSock), Reply2("error: ", MsgNoCfg)}

\* C36: every start, stop, status or reconfigure request that is dispatched
\* finds its handler in the registry and an initialised engine: it is routed
\* to the handler, and it is never answered with the error of a missing
\* registry or of a missing attribute.
C36_NoDispatchBeforeConstructed ==
    \A i \in DOMAIN reqlog :
        (reqlog[i].call # "" /\ VerbOf(reqlog[i].cmd) \in {START, STOP, STATUS, RECONFIGURE}) =>
            /\ reqlog[i].call \in {"cmd", "noarg"}
            /\ \A k \in DOMAIN reqlog[i].replies : reqlog[i].replies[k] \notin UnbuiltReplies

----------------------------------------------------------------------------
\* The handler call of Manager._handle_cmd, lines 139-153, for the handler
\* status, whose signature (self, cmd=None) accepts both fn(cmd) and fn().

\* json.dumps (core.py line 140) raises TypeError for a value its encoder does
\* not know: the report holds settings.model_dump() and configs.model_dump(),
\* where only top-level Path values were turned into strings (lines 214-217,
\* 225-228), so a field a subclass declares (a date, a set, a nested Path)
\* reaches the encoder as it is.
MsgNotJson == "Object of type date is not JSON serializable"

\* The request being served is dispatched to the registered status handler.
HandleStatus == has_handlers /\ STATUS \in handlers /\ VerbOf(mcmd) = STATUS

\* lines 143-144: reply = fn(cmd).  The call binds cmd and the body of status
\* runs: it returns the report (or raises AttributeError while config_manager
\* is unassigned, which line 150 turns into the reply), or json.dumps raises
\* TypeError, which line 145 catches.
MgrCallWithCmd ==
    /\ mpc = "handle"
    /\ HandleStatus
    /\ bodylog' = Append(bodylog, [req |-> Len(reqlog), arg |-> "cmd"])
    /\ reqlog' = [reqlog EXCEPT ![Len(reqlog)].call = "cmd"]
    /\ \E encodable \in BOOLEAN :
        IF ~has_cfg \/ encodable
        THEN mreply' = StatusReply /\ mpc' = "send"
        ELSE mpc' = "retry" /\ UNCHANGED mreply
    /\ UNCHANGED <<mcmd, callVars>>
    /\ UNCHANGED <<calllog, spawned, shutdowns, sendlog, proclog, pairout, closed_mgr>>
    /\ UNCHANGED <<setVars, cfgVars, idVars, fltVars, selfVars, engVars, envVars>>

\* lines 145-146: except TypeError: reply = fn().  The call binds cmd = None
\* and the body of status runs again; a TypeError of this second run reaches
\* line 150: reply = f"error: {e}".
MgrCallNoArg ==
    /\ mpc = "retry"
    /\ bodylog' = Append(bodylog, [req |-> Len(reqlog), arg |-> "none"])
    /\ \E encodable \in BOOLEAN :
        mreply' = IF ~has_cfg \/ encodable THEN StatusReply
                  ELSE Reply2("error: ", MsgNotJson)
    /\ mpc' = "send"
    /\ UNCHANGED <<mcmd, callVars, histVars>>
    /\ UNCHANGED <<setVars, cfgVars, idVars, fltVars, selfVars, engVars, envVars>>

\* A Service under construction and in use whose status report may hold a
\* value json.dumps cannot encode; every other verb is dispatched as before.
RetryNext ==
    \/ Construct
    \/ Frames
    \/ MgrTop \/ MgrRecvTimeout \/ MgrRecv \/ MgrDedup
    \/ (~HandleStatus /\ MgrHandle) \/ MgrCallWithCmd \/ MgrCallNoArg
    \/ MgrCallReturn \/ MgrSend
    \/ WorkerControl
RetrySpec == Init /\ [][RetryNext]_vars

\* The entries into the handler body made for request i.
BodyRuns(i) == SelectSeq(bodylog, LAMBDA b : b.req = i)

\* C37: for each received command the body of the matched handler is entered
\* at most once; the call without argument is never made after the body ran
\* and raised.
C37_HandlerBodyAtMostOnce ==
    \A i \in DOMAIN reqlog : Len(BodyRuns(i)) <= 1

----------------------------------------------------------------------------
\* A stop() call of the caller thread has returned without raising.
StopReturned ==
    \E i \in DOMAIN calllog : calllog[i].op = "stop" /\ calllog[i].res.kind = "ret"

\* C39: once stop() has returned without raising, the processor is not invoked
\* again and nothing is sent again, on an output socket or on the engine
\* socket, whatever start(), stop() and messages follow.
C39_NothingAfterStop ==
    [][StopReturned =>
        (proclog' = proclog /\ sendlog' = sendlog /\ pairout' = pairout)]_vars

----------------------------------------------------------------------------
\* A Service with a config file: Service.__init__ builds the ConfigManager, and
\* the status handler reads it through ConfigManager.get().

\* Service.__init__ line 50: self.config_manager = None, and lines 53-57: the
\* constructor of ConfigManager is entered (it sets _configs = None and calls
\* load()).
ServiceInitConfigNone ==
    /\ ctor = "cfg"
    /\ has_cfg' = TRUE
    /\ ctor' = "cfg_load"
    /\ kpc' = [kpc EXCEPT !["main"] = "load_exists"]
    /\ kloc' = [kloc EXCEPT !["main"] = Loc("init", <<>>, FALSE, Json("none", EmptyDoc), MemNone)]
    /\ UNCHANGED <<stop_event, has_handlers, handlers, has_running, running, thread_attr,
                   rep_sock, pair_sock, out_sockets, out_closed>>
    /\ UNCHANGED <<cfg_schema, cfg_file, cfg_mem, cfg_lock, cfg_log>>
    /\ UNCHANGED <<idVars, fltVars, hdlVars>>
    /\ UNCHANGED <<setVars, mgrVars, engVars, callVars, envVars, histVars>>

\* lines 53-59: load() returned, self.config_manager names the new object and
\* configs = self.config_manager.get() is called.
ServiceInitConfigGet ==
    /\ ctor = "cfg_load"
    /\ kpc["main"] = "idle"
    /\ ctor' = "cfg_get"
    /\ kpc' = [kpc EXCEPT !["main"] = "get_lock"]
    /\ kloc' = [kloc EXCEPT !["main"] = Loc("get", <<>>, FALSE, Json("none", EmptyDoc), cfg_mem)]
    /\ UNCHANGED <<cfg_schema, cfg_file, cfg_mem, cfg_lock, cfg_log>>
    /\ UNCHANGED <<idVars, fltVars, hdlVars>>
    /\ UNCHANGED <<stop_event, has_handlers, handlers, has_running, running, thread_attr,
                   has_cfg, rep_sock, pair_sock, out_sockets, out_closed>>
    /\ UNCHANGED <<setVars, mgrVars, engVars, callVars, envVars, histVars>>

\* lines 60-62: get() returned; __init__ returns.
ServiceInitConfigDone ==
    /\ ctor = "cfg_get"
    /\ kpc["main"] = "idle"
    /\ ctor' = "done"
    /\ mainop' = "idle"
    /\ UNCHANGED <<stop_event, has_handlers, handlers, has_running, running, thread_attr,
                   has_cfg, rep_sock, pair_sock, out_sockets, out_closed>>
    /\ UNCHANGED <<cpc, cvia, cres>>
    /\ UNCHANGED <<setVars, extVars, mgrVars, engVars, envVars, histVars>>

\* self.config_manager names a ConfigManager (it is truthy).
HasManager == has_cfg /\ ctor \in {"cfg_get", "done"}

\* The three places where status tests self.config_manager and calls get():
\* Service.status lines 125-126 and 133-134, _create_status_report lines
\* 219-220; the position of the Manager worker before each test and inside
\* each get().
StatusChecks == <<"handle", "status_2", "status_3">>
StatusGets   == <<"get_1", "get_2", "get_3">>

\* After test k: on to the next test, or (line 140) the report is returned.
StatusNext(k) == mpc' = IF k < 3 THEN StatusChecks[k + 1] ELSE "send"

\* Test k of self.config_manager by the status handler.  While the attribute
\* is unassigned the test raises AttributeError, which _handle_cmd turns into
\* the reply.  Line 129, at the head of the second part, reads self._running.
MgrStatusCheck(k) ==
    /\ mpc = StatusChecks[k]
    /\ HandleStatus
    /\ reqlog' = IF k = 1 THEN [reqlog EXCEPT ![Len(reqlog)].call = "cmd"] ELSE reqlog
    /\ mreply' = IF k = 2 \/ ~has_cfg THEN StatusReply ELSE mreply
    /\ IF ~has_cfg
       THEN mpc' = "send" /\ UNCHANGED <<kpc, kloc>>
       ELSE IF HasManager
       THEN /\ mpc' = StatusGets[k]
            /\ kpc' = [kpc EXCEPT !["mgr"] = "get_lock"]
            /\ kloc' = [kloc EXCEPT !["mgr"] =
                            Loc("get", <<>>, FALSE, Json("none", EmptyDoc), cfg_mem)]
       ELSE StatusNext(k) /\ UNCHANGED <<kpc, kloc>>
    /\ UNCHANGED <<mcmd, callVars>>
    /\ UNCHANGED <<cfg_schema, cfg_file, cfg_mem, cfg_lock, cfg_log>>
    /\ UNCHANGED <<calllog, spawned, shutdowns, sendlog, proclog, pairout, closed_mgr>>
    /\ UNCHANGED <<setVars, idVars, fltVars, hdlVars, selfVars, engVars, envVars>>

\* get() number k of the status handler has returned.
MgrStatusGot(k) ==
    /\ mpc = StatusGets[k]
    /\ kpc["mgr"] = "idle"
    /\ StatusNext(k)
    /\ UNCHANGED <<mcmd, mreply>>
    /\ UNCHANGED <<setVars, extVars, selfVars, engVars, callVars, envVars, histVars>>

\* The config files of this service: present, valid or not for the schema.
ReadFiles == InitFiles \ {FileAbsent}

ReadInit ==
    /\ InitCore /\ IdIdle /\ FltIdle /\ HdlIdle
    /\ kind = "service" /\ ctor = "mgr_init" /\ out_addr = <<>>
    /\ cfg_schema \in Schemas
    /\ cfg_file \in ReadFiles
    /\ cfg_mem = MemNone
    /\ cfg_lock = "free"
    /\ kpc = [u \in Threads |-> "idle"]
    /\ kloc = [u \in Threads |-> NoLoc]
    /\ cfg_log = <<>>

ReadNext ==
    \/ ManagerInit \/ ManagerHandlers \/ ManagerDiscover
    \/ EngineInitEvent \/ EngineInitRunning \/ EngineInitThread \/ EngineInitSockets
    \/ EngineInitAutostart \/ EngineInitAutostartDone
    \/ ServiceInitConfigNone \/ ServiceInitConfigGet \/ ServiceInitConfigDone
    \/ LoadExists("main") \/ LoadRead("main") \/ LoadAssign("main")
    \/ \E t \in Threads : GetLock(t) \/ GetRead(t)
    \/ Frames
    \/ MgrTop \/ MgrRecvTimeout \/ MgrRecv \/ MgrDedup
    \/ (~HandleStatus /\ MgrHandle)
    \/ \E k \in 1..3 : MgrStatusCheck(k) \/ MgrStatusGot(k)
    \/ MgrCallReturn \/ MgrSend
    \/ WorkerControl
ReadSpec == ReadInit /\ [][ReadNext]_vars

\* The Manager worker is serving a request, and the step is one of its own.
Serving == mpc \notin {"new", "top", "recv", "exited"}
MgrStep == mpc' # mpc \/ cpc'["mgr"] # cpc["mgr"] \/ kpc'["mgr"] # kpc["mgr"]

\* The verb is ping, status or one no handler is registered for.
ReadOnlyVerb(cmd) == VerbOf(cmd) \notin {START, STOP, RECONFIGURE}

\* The get() calls the Manager worker has finished.
GetsByMgr == SelectSeq(cfg_log, LAMBDA e : e.op = "get" /\ e.by = "mgr")

\* C40: every step the Manager worker takes while it serves ping, status or an
\* unknown verb leaves self._running, the stop latch, the parameters of the
\* ConfigManager and the config file unchanged; and no step at all changes the
\* settings.
C40_ReadOnlyCommands ==
    /\ [][(Serving /\ ReadOnlyVerb(mcmd) /\ MgrStep) =>
            /\ running' = running /\ has_running' = has_running
            /\ stop_event' = stop_event
            /\ cfg_mem' = cfg_mem /\ cfg_file' = cfg_file]_vars
    /\ [][setVars' = setVars]_vars

\* C40 witness: a status request was served on the running service whose
\* ConfigManager holds parameters: its three get() calls are done and the
\* report was sent.
C40_Witness ==
    /\ Len(reqlog) = 1 /\ reqlog[1].cmd = STATUS
    /\ reqlog[1].replies = <<Reply2("status", "running")>>
    /\ cfg_mem.kind = "model" /\ running
    /\ Len(GetsByMgr) = 3

====
